---- MODULE Spec2Model ----
(***************************************************************************)
(* A model of the Chatsy pipeline: the MessageDetector (feed observer),    *)
(* the ChatsyContentScript (conversation state and suggestion requests)    *)
(* and the APIManager / service worker (provider chain).                   *)
(***************************************************************************)
EXTENDS Integers, Sequences, FiniteSets, TLC

(***************************************************************************)
(* Bounds of the model.                                                    *)
(***************************************************************************)
MaxNow == 2000
MaxMessages == 2
MaxPending == 3
MaxInflight == 1
MaxWindowMessages == 11
MaxWindowPending == 2
MaxSuggestMessages == 1
MaxSuggestPending == 2
MaxSuggestInflight == 1
MaxLatestInflight == 2
MaxOverlayNow == 2200
MaxSavedFetches == 2
MaxBurstCalls == 61
MaxFetchWait == 15000

(***************************************************************************)
(* Program constants.                                                      *)
(***************************************************************************)
DuplicateWindowMs == 5000
TypingDelayMs == 1000
ContextCapacity == 10
RecentContextSize == 5
AutoHideDelayMs == 10000
FadeOutMs == 200
maxRequestsPerMinute == 60
requestTimeoutMs == 10000
MaxResponseLength == 100
ShortMessageLength == 20

(***************************************************************************)
(* Input domains.                                                          *)
(***************************************************************************)
Contacts == {"c1", "c2"}
NoContact == "null"
Texts == {"hi", "ok"}
Platform == "whatsapp"
NoTime == 0
NodeTimes == {NoTime, 1000, 7000}
\* The time the k-th message node of a long run carries: k seconds.
RunNodeTime(k) == k * 1000
TickSteps == {500}
WorkerTickSteps == {5000}
NoTimer == 0
TimerIds == 1..3
Responses == {"Sounds good"}
NoRecord == [contactId |-> NoContact]

VARIABLES
  now,                 \* wall clock, ms (Date.now())
  pageContact,         \* what the adapter's getCurrentContactId() returns
  isMonitoring,        \* MessageDetector.isMonitoring
  observers,           \* number of MutationObservers connected to the page
  messageQueue,        \* MessageDetector.messageQueue
  lastMessageTime,     \* MessageDetector.lastMessageTime
  lastContactId,       \* MessageDetector.lastContactId
  typingTimeout,       \* MessageDetector.typingTimeout (a timer id, NoTimer = null)
  timers,              \* the pending setTimeout callbacks of the detector
  isEnabled,           \* ChatsyContentScript.isEnabled
  currentContact,      \* ChatsyContentScript.currentContact
  conversationContext, \* ChatsyContentScript.conversationContext
  pending,             \* async handlers suspended at await getOrCreateContact
  inflight,            \* GET_AI_RESPONSE requests awaiting their callback
  overlay,             \* UIOverlay: isVisible, currentSuggestions, currentContact
  autoHideTimer,       \* UIOverlay.autoHideTimer: due time of the pending timer, NoTimer = null
  fadeTimers,          \* due times of the pending fade-out callbacks of UIOverlay.hide()
  detectedMessages,    \* history: the valid messages handed to handleNewMessage
  emittedMessages,     \* history: the messageReceived events emitted
  typingHist,          \* history: last valid typing signal and typingDetected event
  pushed,              \* history: entries pushed since the context was last reset
  activeSince,         \* history: contact of the last processed, not yet superseded contactChanged
  lastTyping,          \* history: the last typingDetected event handled by the content script
  lastDelivery,        \* history: the last provider response delivered
  apiKeys,             \* APIManager.apiKeys (undefined until the storage read resolves)
  call,                \* the generateResponse call in progress: position, message, tiers, response
  fetchElapsed,        \* ms the pending provider fetch has been outstanding
  burstFetches,        \* history: provider fetches issued since the clock last advanced
  page,                \* the open page: URL chat segment, document.title, contact header text
  resolved,            \* the last result of a getCurrentContactId call and the step that gave it
  hashSeen,            \* history: the <<mode, input, output>> of every hash call made
  aiRequest,           \* the handleAIRequest call in progress: position, data, payload, prompt
  scrub,               \* the last anonymizeMessage call: body, result, result of scrubbing the result
  encryptionKey,       \* PrivacyManager.encryptionKey (NoKey = null)
  keyInit,             \* position of initializeEncryption, and the key its storage write carries
  keysGenerated,       \* history: number of encryption keys generated so far
  storage,             \* chrome.storage.local: encryptionKey, apiKeys, conversationData
  vault,               \* the last encryptData / decryptData pair: record, stored value, result, modes
  options,             \* the last suggestion set built from a response and handed to the overlay
  site,                \* the document: location.hostname, location.pathname, matching selectors
  detector,            \* PlatformDetector: currentPlatform, platformAdapter
  wait,                \* the promise returned by waitForPlatformReady and its timer
  platformAdapter,     \* MessageDetector.platformAdapter
  listeners,           \* EventEmitter.events[event]
  lastEmit,            \* history: the last emit call: listeners it found, called, caught
  configured,          \* the enabled property that UPDATE_SETTINGS pushes leave on the
                       \* content script and in UIOverlay.settings
  today,               \* whole days elapsed: Date.now() is today days and now ms
  cleanup,             \* the cleanupOldData call in progress and, as history, its write
  parsedTime,          \* the last call of an adapter's time parser: text, clock, result
  stores,              \* the storeConversationData calls whose storage read or callback is
                       \* outstanding and, as history, the records of the requests answered
  popup,               \* ChatsyPopup: apiKeys, the runtime message it sent and the reply,
                       \* and, as history, the providers whose key it saved
  service,             \* ChatsyApp: serviceStatus, monitoringInterval, the click listeners
                       \* of its buttons and the intervals that are active
  invocations,         \* history: how often each callback given to once() was invoked
  promise              \* the promise returned by waitFor and its timer

envVars == <<now, pageContact>>
detVars == <<isMonitoring, observers, messageQueue, lastMessageTime, lastContactId, typingTimeout, timers>>
csVars == <<isEnabled, currentContact, conversationContext, pending, inflight>>
uiVars == <<overlay, autoHideTimer, fadeTimers>>
histVars == <<detectedMessages, emittedMessages, typingHist, pushed, activeSince, lastTyping, lastDelivery>>
feedVars == <<envVars, detVars, csVars, uiVars, histVars>>
apiVars == <<apiKeys, call, fetchElapsed, burstFetches>>
pageVars == <<page, resolved>>
privacyVars == <<hashSeen>>
requestVars == <<aiRequest>>
scrubVars == <<scrub>>
keyVars == <<encryptionKey, keyInit, keysGenerated>>
storeVars == <<storage>>
vaultVars == <<vault>>
workerVars == <<requestVars, scrubVars, keyVars, storeVars, vaultVars>>
optionVars == <<options>>
platformVars == <<site, detector, wait, platformAdapter>>
emitterVars == <<listeners, lastEmit>>
settingVars == <<configured>>
cleanupVars == <<today, cleanup>>
timeVars == <<parsedTime>>
storeOpVars == <<stores>>
popupVars == <<popup>>
serviceVars == <<service>>
onceVars == <<invocations, promise>>
lateVars == <<timeVars, storeOpVars, popupVars, serviceVars, onceVars>>
extraVars == <<platformVars, emitterVars, settingVars, cleanupVars, lateVars>>
auxVars == <<pageVars, privacyVars, workerVars, optionVars, extraVars>>

(***************************************************************************)
(* Helpers.                                                                *)
(***************************************************************************)
Abs(x) == IF x < 0 THEN -x ELSE x

Min(S) == CHOOSE x \in S : \A y \in S : x <= y

LastN(s, n) == IF Len(s) <= n THEN s ELSE SubSeq(s, Len(s) - n + 1, Len(s))

RemoveAt(s, i) == SubSeq(s, 1, i - 1) \o SubSeq(s, i + 1, Len(s))

(***************************************************************************)
(* MessageDetector.                                                        *)
(***************************************************************************)

\* isDuplicateMessage(messageData), evaluated against the queue as it stands.
isDuplicateMessage(queue, messageData) ==
  LET recent(msg) == /\ msg.contactId = messageData.contactId
                     /\ msg.message = messageData.message
                     /\ Abs(msg.timestamp - messageData.timestamp) < DuplicateWindowMs
  IN Len(SelectSeq(queue, recent)) > 1

\* getCurrentContactId(): delegates to the adapter.
getCurrentContactId == pageContact

\* checkForContactChange(messageData): the contactChanged event to emit, if any.
checkForContactChange_NoCompare(last) ==
  LET currentContactId == getCurrentContactId
  IN IF currentContactId # NoContact
       THEN <<[contactId |-> currentContactId, platform |-> Platform, timestamp |-> now]>>
       ELSE <<>>

checkForContactChange(last) ==
  LET currentContactId == getCurrentContactId
  IN IF currentContactId # NoContact /\ currentContactId # last
       THEN <<[contactId |-> currentContactId, platform |-> Platform, timestamp |-> now]>>
       ELSE <<>>

\* processMessageQueue(): drains the queue in order; yields the detector fields
\* it leaves behind and the contactChanged events it emitted.
RECURSIVE processMessageQueue(_, _, _, _)
processMessageQueue(queue, lmt, lcid, events) ==
  IF Len(queue) = 0
    THEN [queue |-> queue, lastMessageTime |-> lmt, lastContactId |-> lcid, events |-> events]
    ELSE LET messageData == Head(queue)
             ev == checkForContactChange(lcid)
         IN processMessageQueue(Tail(queue), messageData.timestamp,
                                IF ev = <<>> THEN lcid ELSE ev[1].contactId,
                                events \o ev)

\* A message node: its classes, the selectors that match inside it and whether
\* its data-testid contains "outgoing".
IncomingNode == [classList |-> {"message-in"}, inside |-> {}, outgoingTestid |-> FALSE]

OutgoingNode == [classList |-> {"message-out"}, inside |-> {}, outgoingTestid |-> FALSE]

MessageNodes ==
  {IncomingNode, OutgoingNode,
   [classList |-> {}, inside |-> {"[data-testid=msg-meta]"}, outgoingTestid |-> FALSE],
   [classList |-> {}, inside |-> {"[data-testid=msg-meta]", ".message-out"},
    outgoingTestid |-> FALSE]}

\* WhatsAppAdapter.getMessageType(node)
getMessageType(node) ==
  IF "message-out" \in node.classList THEN "outgoing"
  ELSE IF "message-in" \in node.classList THEN "incoming"
  ELSE LET isOutgoing == \/ "[data-testid*=outgoing]" \in node.inside
                         \/ ".message-out" \in node.inside
                         \/ node.outgoingTestid
       IN IF isOutgoing THEN "outgoing" ELSE "incoming"

\* The adapter's extractMessageData(node): null when text or contact is missing.
extractMessageData(text, nodeTime, node) ==
  IF text = "" \/ getCurrentContactId = NoContact
    THEN <<>>
    ELSE <<[message |-> text, contactId |-> getCurrentContactId, platform |-> Platform,
            timestamp |-> IF nodeTime = NoTime THEN now ELSE nodeTime,
            type |-> getMessageType(node)]>>

\* The adapter's detectTyping(node) for a node that is a typing indicator.
detectTyping == [contactId |-> getCurrentContactId, platform |-> Platform, timestamp |-> now]

FreeTimerIds(ts) == TimerIds \ {t.id : t \in ts}

\* handleTypingDetected(typingData) of the detector, on its timer state.
MD_handleTypingDetected_NoClear(st, typingData) ==
  IF typingData.contactId = NoContact \/ FreeTimerIds(st.timers) = {}
    THEN st
    ELSE LET id == Min(FreeTimerIds(st.timers))
         IN [typingTimeout |-> id,
             timers |-> st.timers \cup
                        {[id |-> id, data |-> typingData, due |-> now + TypingDelayMs]}]

MD_handleTypingDetected(st, typingData) ==
  IF typingData.contactId = NoContact
    THEN st
    ELSE LET cleared == IF st.typingTimeout # NoTimer
                          THEN {t \in st.timers : t.id # st.typingTimeout}
                          ELSE st.timers
             id == Min(FreeTimerIds(cleared))
         IN [typingTimeout |-> id,
             timers |-> cleared \cup
                        {[id |-> id, data |-> typingData, due |-> now + TypingDelayMs]}]

(***************************************************************************)
(* ContactManager (storage/contact-manager.js).                            *)
(***************************************************************************)
getOrCreateContact(contactId, platform) == [contactId |-> contactId, platform |-> platform]

(***************************************************************************)
(* ChatsyContentScript.                                                    *)
(***************************************************************************)

\* The synchronous part of an async handler: it runs up to its first await.
StartHandler(kind, data) == [kind |-> kind, data |-> data]

\* buildConversationContext(): the last five messages, one "Them: ..." or
\* "You: ..." line each.
buildConversationContext(ctx) ==
  LET recent == LastN(ctx, RecentContextSize)
  IN [i \in 1..Len(recent) |->
        <<IF recent[i].type = "received" THEN "Them" ELSE "You", recent[i].message>>]

\* generateSuggestions(): the GET_AI_RESPONSE request it sends, if any.
generateSuggestions(contact, ctx) ==
  LET received == SelectSeq(ctx, LAMBDA e : e.type = "received")
  IN IF contact = NoRecord \/ Len(ctx) = 0 \/ Len(received) = 0
       THEN <<>>
       ELSE <<[message |-> received[Len(received)].message,
               context |-> buildConversationContext(ctx),
               contactId |-> contact.contactId,
               platform |-> contact.platform,
               invalidated |-> FALSE,
               overtaken |-> FALSE]>>

\* handleTypingDetected(data) of the content script: the request it issues, if any.
CS_handleTypingDetected_NoContactCheck(data, enabled, contact, ctx) ==
  IF ~enabled \/ contact = NoRecord
    THEN <<>>
    ELSE generateSuggestions(contact, ctx)

CS_handleTypingDetected(data, enabled, contact, ctx) ==
  IF ~enabled \/ contact = NoRecord
    THEN <<>>
    ELSE IF data.contactId = contact.contactId
           THEN generateSuggestions(contact, ctx)
           ELSE <<>>

\* handleMessageReceived after its await: push and trim.
PushAndTrim_DropNewest(ctx, entry) ==
  LET appended == Append(ctx, entry)
  IN IF Len(appended) > ContextCapacity
       THEN SubSeq(appended, 1, ContextCapacity)
       ELSE appended

PushAndTrim(ctx, entry) ==
  LET appended == Append(ctx, entry)
  IN IF Len(appended) > ContextCapacity
       THEN SubSeq(appended, Len(appended) - ContextCapacity + 1, Len(appended))
       ELSE appended

(***************************************************************************)
(* UIOverlay.                                                              *)
(***************************************************************************)
HiddenOverlay == [isVisible |-> FALSE, base |-> "", contactId |-> NoContact]

\* showSuggestions(suggestions, contact): store them, show(), restart the auto-hide timer.
UI_showSuggestions(ui, base, contact) ==
  [overlay |-> [isVisible |-> TRUE, base |-> base, contactId |-> contact.contactId],
   autoHideTimer |-> now + AutoHideDelayMs,
   fadeTimers |-> ui.fadeTimers]

\* hide(): nothing when hidden; else schedule the fade-out and clear the auto-hide timer.
UI_hide(ui) ==
  IF ~ui.overlay.isVisible
    THEN ui
    ELSE [overlay |-> ui.overlay,
          autoHideTimer |-> NoTimer,
          fadeTimers |-> ui.fadeTimers \cup {now + FadeOutMs}]

(***************************************************************************)
(* Initial state: the components as constructed, before monitoring starts. *)
(***************************************************************************)
NoSignal == [contactId |-> NoContact, platform |-> Platform, timestamp |-> 0]

FeedInit ==
  /\ now = 0
  /\ pageContact \in Contacts \cup {NoContact}
  /\ isMonitoring = FALSE
  /\ observers = 0
  /\ messageQueue = <<>>
  /\ lastMessageTime = 0
  /\ lastContactId = NoContact
  /\ typingTimeout = NoTimer
  /\ timers = {}
  /\ isEnabled = TRUE
  /\ currentContact = NoRecord
  /\ conversationContext = <<>>
  /\ pending = <<>>
  /\ inflight = <<>>
  /\ overlay = HiddenOverlay
  /\ autoHideTimer = NoTimer
  /\ fadeTimers = {}
  /\ detectedMessages = <<>>
  /\ emittedMessages = <<>>
  /\ typingHist = [signal |-> NoSignal, signalAt |-> 0, burstStart |-> 0, emits |-> 0,
                   emitted |-> NoSignal, emittedAt |-> 0]
  /\ pushed = <<>>
  /\ activeSince = NoContact
  /\ lastTyping = [contactId |-> NoContact, active |-> NoContact, enabled |-> FALSE,
                   issued |-> FALSE]
  /\ lastDelivery = [requestedFor |-> NoContact, stale |-> FALSE, shown |-> FALSE,
                     shownUnder |-> NoContact, overtaken |-> FALSE]

(***************************************************************************)
(* Environment: the clock and the page.                                    *)
(***************************************************************************)

\* Time passes.
Tick(d) ==
  /\ now + d <= MaxNow
  /\ now' = now + d
  /\ UNCHANGED <<auxVars, apiVars, pageContact, detVars, csVars, uiVars, histVars>>

\* Time passes, up to the moment the next fade-out callback of the overlay is
\* due: the callback runs on time.
Elapse(d) ==
  /\ now + d <= MaxOverlayNow
  /\ \A due \in fadeTimers : now + d <= due
  /\ now' = now + d
  /\ UNCHANGED <<auxVars, apiVars, pageContact, detVars, csVars, uiVars, histVars>>

\* The user opens another conversation (or none).
Navigate(c) ==
  /\ c # pageContact
  /\ pageContact' = c
  /\ UNCHANGED <<auxVars, apiVars, now, detVars, csVars, uiVars, histVars>>

(***************************************************************************)
(* MessageDetector: start, stop and the mutation callback.                 *)
(***************************************************************************)

\* startMonitoring() and stopMonitoring() of the detector, on the fields they touch.
DetectorState ==
  [isMonitoring |-> isMonitoring, observers |-> observers, typingTimeout |-> typingTimeout,
   timers |-> timers]

startMonitoring(st) ==
  IF st.isMonitoring
    THEN st
    ELSE [st EXCEPT !.isMonitoring = TRUE, !.observers = @ + 1]

stopMonitoring_NoClear(st) ==
  IF ~st.isMonitoring
    THEN st
    ELSE [st EXCEPT !.isMonitoring = FALSE, !.observers = IF @ > 0 THEN @ - 1 ELSE @]

stopMonitoring(st) ==
  IF ~st.isMonitoring
    THEN st
    ELSE [isMonitoring |-> FALSE,
          observers |-> IF st.observers > 0 THEN st.observers - 1 ELSE st.observers,
          typingTimeout |-> NoTimer,
          timers |-> IF st.typingTimeout # NoTimer
                       THEN {t \in st.timers : t.id # st.typingTimeout}
                       ELSE st.timers]

\* ChatsyContentScript.startMonitoring() calls the detector's startMonitoring().
StartMonitoring ==
  /\ LET st == startMonitoring(DetectorState)
     IN /\ isMonitoring' = st.isMonitoring
        /\ observers' = st.observers
  /\ UNCHANGED <<auxVars, apiVars, envVars, messageQueue, lastMessageTime, lastContactId, typingTimeout,
                 timers, csVars, uiVars, histVars>>

\* stopMonitoring()
StopMonitoring ==
  /\ LET st == stopMonitoring(DetectorState)
     IN /\ isMonitoring' = st.isMonitoring
        /\ observers' = st.observers
        /\ typingTimeout' = st.typingTimeout
        /\ timers' = st.timers
  /\ UNCHANGED <<auxVars, apiVars, envVars, messageQueue, lastMessageTime, lastContactId, csVars, uiVars,
                 histVars>>

\* handleNewMessage(messageData): what it leaves in the detector and what it emits.
handleNewMessage(messageData) ==
  IF isDuplicateMessage(messageQueue, messageData)
    THEN [queue |-> messageQueue, lastMessageTime |-> lastMessageTime,
          lastContactId |-> lastContactId, changed |-> <<>>, received |-> <<>>]
    ELSE LET r == processMessageQueue(Append(messageQueue, messageData), lastMessageTime,
                                      lastContactId, <<>>)
         IN [queue |-> r.queue, lastMessageTime |-> r.lastMessageTime,
             lastContactId |-> r.lastContactId, changed |-> r.events,
             received |-> <<messageData>>]

\* A mutation batch adds a message node: handleDOMChanges -> checkForNewMessages ->
\* detectNewMessage -> handleNewMessage; the emitted events start the content
\* script's async handlers, which suspend at their first await.
DetectMessageNode(text, nodeTime, node, cap, pendingCap) ==
  /\ isMonitoring
  /\ Len(detectedMessages) < cap
  /\ LET found == extractMessageData(text, nodeTime, node)
     IN /\ found # <<>>
        /\ LET r == handleNewMessage(found[1])
               started == [i \in 1..Len(r.changed) |-> StartHandler("contactChanged", r.changed[i])]
                          \o [i \in 1..Len(r.received) |-> StartHandler("messageReceived", r.received[i])]
           IN /\ Len(pending) + Len(started) <= pendingCap
              /\ messageQueue' = r.queue
              /\ lastMessageTime' = r.lastMessageTime
              /\ lastContactId' = r.lastContactId
              /\ pending' = pending \o started
              /\ detectedMessages' = Append(detectedMessages, found[1])
              /\ emittedMessages' = emittedMessages \o r.received
              /\ activeSince' = IF r.changed # <<>> THEN NoContact ELSE activeSince
  /\ UNCHANGED <<auxVars, apiVars, envVars, isMonitoring, observers, typingTimeout, timers, isEnabled, currentContact,
                 conversationContext, inflight, uiVars, typingHist, pushed, lastTyping,
                 lastDelivery>>

\* The same for a node of an incoming message.
DetectMessage(text, nodeTime, cap, pendingCap) ==
  DetectMessageNode(text, nodeTime, IncomingNode, cap, pendingCap)

\* A mutation touches a typing indicator: checkForTypingIndicators calls
\* handleTypingDetected once for the adapter's detectTyping and once more when the
\* node also matches the detector's own isTypingIndicator.
DetectTyping(calls, inflightCap) ==
  /\ isMonitoring
  /\ Len(inflight) < inflightCap
  /\ LET st0 == [typingTimeout |-> typingTimeout, timers |-> timers]
         st1 == MD_handleTypingDetected(st0, detectTyping)
         st2 == IF calls = 2 THEN MD_handleTypingDetected(st1, detectTyping) ELSE st1
     IN /\ typingTimeout' = st2.typingTimeout
        /\ timers' = st2.timers
        /\ typingHist' = IF detectTyping.contactId # NoContact
                           THEN [typingHist EXCEPT
                                   !.signal = detectTyping, !.signalAt = now, !.emits = 0,
                                   !.burstStart = IF /\ typingHist.signal # NoSignal
                                                       /\ typingHist.emits = 0
                                                       /\ now - typingHist.signalAt < TypingDelayMs
                                                     THEN @ ELSE now]
                           ELSE typingHist
  /\ UNCHANGED <<auxVars, apiVars, envVars, isMonitoring, observers, messageQueue, lastMessageTime, lastContactId, csVars,
                 uiVars, detectedMessages, emittedMessages, pushed, activeSince, lastTyping, lastDelivery>>

\* The debounce timer fires: emit('typingDetected') runs the content script's
\* handleTypingDetected, which may send a GET_AI_RESPONSE request.
TypingTimerFires ==
  \E t \in timers :
    /\ t.due <= now
    /\ timers' = timers \ {t}
    /\ LET req == CS_handleTypingDetected(t.data, isEnabled, currentContact, conversationContext)
       IN /\ inflight' = inflight \o req
          /\ lastTyping' = [contactId |-> t.data.contactId, active |-> currentContact.contactId,
                            enabled |-> isEnabled, issued |-> req # <<>>]
    /\ typingHist' = [typingHist EXCEPT !.emits = IF @ < 2 THEN @ + 1 ELSE @,
                                        !.emitted = t.data, !.emittedAt = now]
    /\ UNCHANGED <<auxVars, apiVars, envVars, isMonitoring, observers, messageQueue, lastMessageTime, lastContactId,
                   typingTimeout, isEnabled, currentContact, conversationContext, pending,
                   uiVars, detectedMessages, emittedMessages, pushed, activeSince, lastDelivery>>

(***************************************************************************)
(* ChatsyContentScript: the handlers after their await, and the callback.  *)
(***************************************************************************)

\* handleMessageReceived resumes after await getOrCreateContact.
ResumeMessageReceived(i) ==
  /\ i \in 1..Len(pending)
  /\ pending[i].kind = "messageReceived"
  /\ LET data == pending[i].data
         entry == [type |-> "received", message |-> data.message,
                   timestamp |-> data.timestamp, contactId |-> data.contactId]
     IN /\ currentContact' = getOrCreateContact(data.contactId, data.platform)
        /\ conversationContext' = PushAndTrim(conversationContext, entry)
        /\ pushed' = Append(pushed, entry)
  /\ pending' = RemoveAt(pending, i)
  /\ UNCHANGED <<auxVars, apiVars, envVars, detVars, isEnabled, inflight, uiVars, detectedMessages, emittedMessages, typingHist,
                 activeSince, lastTyping, lastDelivery>>

\* handleContactChanged resumes after await getOrCreateContact.
ResumeContactChanged(i) ==
  /\ i \in 1..Len(pending)
  /\ pending[i].kind = "contactChanged"
  /\ LET data == pending[i].data
         rest == RemoveAt(pending, i)
     IN /\ currentContact' = getOrCreateContact(data.contactId, data.platform)
        /\ conversationContext' = <<>>
        /\ pushed' = <<>>
        /\ pending' = rest
        /\ inflight' = [k \in 1..Len(inflight) |->
                          IF inflight[k].contactId # data.contactId
                            THEN [inflight[k] EXCEPT !.invalidated = TRUE]
                            ELSE inflight[k]]
        /\ activeSince' = IF \E k \in 1..Len(rest) : rest[k].kind = "contactChanged"
                            THEN NoContact
                            ELSE data.contactId
  /\ UNCHANGED <<auxVars, apiVars, envVars, detVars, isEnabled, uiVars, detectedMessages, emittedMessages, typingHist, lastTyping,
                 lastDelivery>>

\* showSuggestions(aiResponse, originalMessage) of the content script.
CS_showSuggestions(ui, aiResponse, contact) == UI_showSuggestions(ui, aiResponse, contact)

\* History: the requests issued before request i, now that its response is shown.
overtake(requests, i) ==
  [k \in DOMAIN requests |->
     IF k < i THEN [requests[k] EXCEPT !.overtaken = TRUE] ELSE requests[k]]

\* The sendMessage callback runs with the background's response.
DeliverResponse(i, success, aiResponse) ==
  /\ i \in 1..Len(inflight)
  /\ LET req == inflight[i]
         ui0 == [overlay |-> overlay, autoHideTimer |-> autoHideTimer, fadeTimers |-> fadeTimers]
         ui1 == IF success THEN CS_showSuggestions(ui0, aiResponse, currentContact) ELSE ui0
     IN /\ overlay' = ui1.overlay
        /\ autoHideTimer' = ui1.autoHideTimer
        /\ fadeTimers' = ui1.fadeTimers
        /\ lastDelivery' = [requestedFor |-> req.contactId, stale |-> req.invalidated,
                            shown |-> success, shownUnder |-> currentContact.contactId,
                            overtaken |-> req.overtaken]
  /\ inflight' = RemoveAt(IF success THEN overtake(inflight, i) ELSE inflight, i)
  /\ UNCHANGED <<auxVars, apiVars, envVars, detVars, isEnabled, currentContact, conversationContext, pending,
                 detectedMessages, emittedMessages, typingHist, pushed, activeSince, lastTyping>>

\* toggleSuggestions() on TOGGLE_SUGGESTIONS.
ToggleSuggestions ==
  /\ isEnabled' = ~isEnabled
  /\ IF isEnabled'
       THEN /\ isMonitoring' = startMonitoring(DetectorState).isMonitoring
            /\ observers' = startMonitoring(DetectorState).observers
            /\ UNCHANGED uiVars
       ELSE LET ui == UI_hide([overlay |-> overlay, autoHideTimer |-> autoHideTimer,
                               fadeTimers |-> fadeTimers])
            IN /\ overlay' = ui.overlay
               /\ autoHideTimer' = ui.autoHideTimer
               /\ fadeTimers' = ui.fadeTimers
               /\ UNCHANGED <<isMonitoring, observers>>
  /\ UNCHANGED <<auxVars, apiVars, envVars, messageQueue, lastMessageTime, lastContactId, typingTimeout, timers,
                 currentContact, conversationContext, pending, inflight, histVars>>

\* The fade-out callback scheduled by UIOverlay.hide() runs.
FadeOutFires ==
  \E due \in fadeTimers :
    /\ due <= now
    /\ fadeTimers' = fadeTimers \ {due}
    /\ overlay' = HiddenOverlay
    /\ UNCHANGED <<auxVars, apiVars, envVars, detVars, csVars, autoHideTimer, histVars>>

(***************************************************************************)
(* Strings of the provider chain are sequences of characters, so that      *)
(* trimming, searching and truncating are computed as the code does.       *)
(***************************************************************************)
UpperCase == <<"A", "B", "C", "D", "E", "F", "G", "H", "I", "J", "K", "L", "M", "N", "O", "P",
               "Q", "R", "S", "T", "U", "V", "W", "X", "Y", "Z">>

LowerCase == <<"a", "b", "c", "d", "e", "f", "g", "h", "i", "j", "k", "l", "m", "n", "o", "p",
               "q", "r", "s", "t", "u", "v", "w", "x", "y", "z">>

\* String.prototype.toLowerCase
toLowerCase(s) ==
  [i \in 1..Len(s) |->
     IF \E k \in 1..26 : UpperCase[k] = s[i]
       THEN LowerCase[CHOOSE k \in 1..26 : UpperCase[k] = s[i]]
       ELSE s[i]]

\* String.prototype.includes
includes(s, sub) ==
  \E i \in 1..(Len(s) - Len(sub) + 1) : SubSeq(s, i, i + Len(sub) - 1) = sub

IsSpace(c) == c \in {" ", "\t", "\n"}

RECURSIVE trimStart(_)
trimStart(s) == IF Len(s) > 0 /\ IsSpace(s[1]) THEN trimStart(Tail(s)) ELSE s

RECURSIVE trimEnd(_)
trimEnd(s) == IF Len(s) > 0 /\ IsSpace(s[Len(s)]) THEN trimEnd(SubSeq(s, 1, Len(s) - 1)) ELSE s

\* String.prototype.trim
trim(s) == trimEnd(trimStart(s))

ResponsePrefix == <<"r", "e", "s", "p", "o", "n", "s", "e", ":">>

\* response.replace(/^Response:\s*/i, '')
stripResponsePrefix(s) ==
  IF Len(s) >= Len(ResponsePrefix)
     /\ toLowerCase(SubSeq(s, 1, Len(ResponsePrefix))) = ResponsePrefix
    THEN trimStart(SubSeq(s, Len(ResponsePrefix) + 1, Len(s)))
    ELSE s

Ellipsis == <<".", ".", ".">>

\* generateLocalResponse: the fixed response sets, one per bucket.
GreetingResponses ==
  <<<<"H", "e", "y", " ", "t", "h", "e", "r", "e", "!", " ", "U+1F44B">>,
    <<"H", "i", "!", " ", "H", "o", "w", " ", "a", "r", "e", " ", "y", "o", "u", "?">>,
    <<"H", "e", "l", "l", "o", "!", " ", "N", "i", "c", "e", " ", "t", "o", " ", "h", "e", "a", "r", " ", "f", "r", "o", "m", " ", "y", "o", "u">>>>

HowAreYouResponses ==
  <<<<"I", "'", "m", " ", "d", "o", "i", "n", "g", " ", "g", "r", "e", "a", "t", ",", " ", "t", "h", "a", "n", "k", "s", " ", "f", "o", "r", " ", "a", "s", "k", "i", "n", "g", "!", " ", "U+1F60A">>,
    <<"A", "l", "l", " ", "g", "o", "o", "d", " ", "h", "e", "r", "e", "!", " ", "H", "o", "w", " ", "a", "b", "o", "u", "t", " ", "y", "o", "u", "?">>,
    <<"P", "r", "e", "t", "t", "y", " ", "g", "o", "o", "d", "!", " ", "H", "o", "p", "e", " ", "y", "o", "u", "'", "r", "e", " ", "w", "e", "l", "l", " ", "t", "o", "o">>>>

ThanksResponses ==
  <<<<"Y", "o", "u", "'", "r", "e", " ", "w", "e", "l", "c", "o", "m", "e", "!", " ", "U+1F60A">>,
    <<"A", "n", "y", "t", "i", "m", "e", "!">>,
    <<"G", "l", "a", "d", " ", "I", " ", "c", "o", "u", "l", "d", " ", "h", "e", "l", "p", "!">>>>

FarewellResponses ==
  <<<<"S", "e", "e", " ", "y", "o", "u", " ", "l", "a", "t", "e", "r", "!", " ", "U+1F44B">>,
    <<"T", "a", "k", "e", " ", "c", "a", "r", "e", "!">>,
    <<"T", "a", "l", "k", " ", "t", "o", " ", "y", "o", "u", " ", "s", "o", "o", "n", "!">>>>

ShortResponses ==
  <<<<"G", "o", "t", " ", "i", "t", "!", " ", "U+1F44D">>,
    <<"I", " ", "s", "e", "e", "!">>,
    <<"I", "n", "t", "e", "r", "e", "s", "t", "i", "n", "g", "!">>,
    <<"T", "e", "l", "l", " ", "m", "e", " ", "m", "o", "r", "e", "!">>>>

DefaultResponses ==
  <<<<"T", "h", "a", "t", " ", "s", "o", "u", "n", "d", "s", " ", "g", "o", "o", "d", "!">>,
    <<"I", " ", "u", "n", "d", "e", "r", "s", "t", "a", "n", "d", " ", "w", "h", "a", "t", " ", "y", "o", "u", " ", "m", "e", "a", "n">>,
    <<"T", "h", "a", "n", "k", "s", " ", "f", "o", "r", " ", "s", "h", "a", "r", "i", "n", "g", " ", "t", "h", "a", "t">>,
    <<"I", " ", "a", "p", "p", "r", "e", "c", "i", "a", "t", "e", " ", "y", "o", "u", " ", "t", "e", "l", "l", "i", "n", "g", " ", "m", "e">>>>

W_hello == <<"h", "e", "l", "l", "o">>
W_hi == <<"h", "i">>
W_how_are_you == <<"h", "o", "w", " ", "a", "r", "e", " ", "y", "o", "u">>
W_thank == <<"t", "h", "a", "n", "k">>
W_bye == <<"b", "y", "e">>
W_goodbye == <<"g", "o", "o", "d", "b", "y", "e">>

\* The message of a request, as it reaches generateResponse.
APIMessages ==
  {<<>>,
   <<"H", "i">>,
   <<"t", "h", "i", "s", " ", "i", "s", " ", "f", "i", "n", "e">>,
   <<"H", "o", "w", " ", "a", "r", "e", " ", "y", "o", "u">>,
   <<"T", "h", "a", "n", "k", "s">>,
   <<"G", "o", "o", "d", "b", "y", "e">>,
   <<"o", "k">>,
   <<"m", "e", "e", "t", " ", "m", "e", " ", "a", "t", " ", "n", "o", "o", "n", " ", "t", "o", "m", "o", "r", "r", "o", "w", " ", "o", "k">>}

\* Texts a provider may put in its payload; LongText has 101 characters.
LongText == [i \in 1..(MaxResponseLength + 1) |-> "x"]

ProviderTexts ==
  {<<"R", "e", "s", "p", "o", "n", "s", "e", ":", " ", "S", "u", "r", "e">>,
   <<"r", "e", "s", "p", "o", "n", "s", "e", ":", " ", " ">>,
   <<" ", " ", "O", "n", " ", "m", "y", " ", "w", "a", "y", " ", " ">>,
   <<" ", " ", " ">>,
   LongText}

(***************************************************************************)
(* The APIManager: generateResponse and its provider chain.                 *)
(***************************************************************************)
\* A message that is not a string (data.message undefined).
UndefinedMessage == [isString |-> FALSE, text |-> <<>>]

StringMessage(t) == [isString |-> TRUE, text |-> t]

APIRequests == {StringMessage(t) : t \in APIMessages} \cup {UndefinedMessage}

\* What a tier hands back: null or a string.
Null == [isNull |-> TRUE, text |-> <<>>]

Str(t) == [isNull |-> FALSE, text |-> t]

\* The bodies a provider may answer with when the status is 2xx.
HFShapes == {"noItem", "noText", "text"}

GeminiShapes == {"noCandidates", "noContent", "noParts", "text"}

\* How a provider fetch may settle.
FetchOutcomes(shapes) ==
  {[kind |-> k, shape |-> "none", text |-> <<>>] : k \in {"networkError", "httpError", "invalidJSON"}}
    \cup {[kind |-> "ok", shape |-> sh, text |-> <<>>] : sh \in shapes \ {"text"}}
    \cup {[kind |-> "ok", shape |-> "text", text |-> t] : t \in ProviderTexts}

\* response.substring(0, 100) + '...' when response.length > 100
truncate(s) ==
  IF Len(s) > MaxResponseLength THEN SubSeq(s, 1, MaxResponseLength) \o Ellipsis ELSE s

\* APIManager.processHFResponse
processHFResponse(result) ==
  IF result.shape = "text" /\ Len(result.text) > 0
    THEN Str(truncate(trim(stripResponsePrefix(result.text))))
    ELSE Null

\* APIManager.processGeminiResponse; a candidate whose content has no parts makes
\* it throw, which tryGoogleGemini catches.
processGeminiResponse(result) ==
  IF result.shape \in {"text", "noParts"}
    THEN IF result.shape = "noParts" THEN Null ELSE Str(truncate(trim(result.text)))
    ELSE Null

\* The part of tryHuggingFace / tryGoogleGemini after the fetch settles.
afterFetch(tier, outcome) ==
  IF outcome.kind = "ok"
    THEN IF tier = "huggingface" THEN processHFResponse(outcome)
                                 ELSE processGeminiResponse(outcome)
    ELSE Null

\* if (hfResponse) / if (geminiResponse) in generateResponse
Truthy_NotNull(r) == ~r.isNull

Truthy(r) == ~r.isNull /\ Len(r.text) > 0

\* APIManager.getRandomResponse: any element of the array.
getRandomResponse(responses) == {responses[i] : i \in DOMAIN responses}

\* APIManager.generateLocalResponse: the set of strings it may return.
generateLocalResponse(message) ==
  LET lowerMessage == toLowerCase(message.text)
  IN  IF includes(lowerMessage, W_hello) \/ includes(lowerMessage, W_hi)
        THEN getRandomResponse(GreetingResponses)
      ELSE IF includes(lowerMessage, W_how_are_you)
        THEN getRandomResponse(HowAreYouResponses)
      ELSE IF includes(lowerMessage, W_thank)
        THEN getRandomResponse(ThanksResponses)
      ELSE IF includes(lowerMessage, W_bye) \/ includes(lowerMessage, W_goodbye)
        THEN getRandomResponse(FarewellResponses)
      ELSE IF Len(message.text) < ShortMessageLength
        THEN getRandomResponse(ShortResponses)
      ELSE getRandomResponse(DefaultResponses)

IdleCall == [pc |-> "idle", message |-> UndefinedMessage, tiers |-> <<>>, response |-> Null]

TierEntry(tier, called, threw, result) ==
  [tier |-> tier, called |-> called, threw |-> threw, result |-> result]

FetchStates == {"huggingfaceFetch", "geminiFetch"}

APIInit ==
  /\ apiKeys = [loaded |-> FALSE, huggingface |-> FALSE, gemini |-> FALSE]
  /\ call = IdleCall
  /\ fetchElapsed = 0
  /\ burstFetches = 0

\* generateResponse reaches generateLocalResponse, on the normal path or in its
\* catch block; a message that is not a string makes it throw out of both.
LocalTier(message, tiers) ==
  IF message.isString
    THEN \E r \in generateLocalResponse(message) :
           call' = [pc |-> "returned", message |-> message,
                    tiers |-> Append(tiers, TierEntry("local", FALSE, FALSE, Str(r))),
                    response |-> Str(r)]
    ELSE call' = [pc |-> "rejected", message |-> message,
                  tiers |-> Append(tiers, TierEntry("local", FALSE, TRUE, Null)),
                  response |-> Null]

\* generateResponse from the call of tryGoogleGemini up to its first await.
GeminiTier(message, tiers) ==
  IF ~apiKeys.loaded
    THEN /\ LocalTier(message, Append(tiers, TierEntry("gemini", FALSE, TRUE, Null)))
         /\ UNCHANGED <<fetchElapsed, burstFetches>>
  ELSE IF ~apiKeys.gemini
    THEN /\ LocalTier(message, Append(tiers, TierEntry("gemini", FALSE, FALSE, Null)))
         /\ UNCHANGED <<fetchElapsed, burstFetches>>
  ELSE /\ call' = [pc |-> "geminiFetch", message |-> message, tiers |-> tiers,
                   response |-> Null]
       /\ fetchElapsed' = 0
       /\ burstFetches' = burstFetches + 1

(***************************************************************************)
(* Actions of the APIManager.                                              *)
(***************************************************************************)
\* The storage read of initializeAPIKeys resolves: apiKeys = result.apiKeys || {}.
InitializeAPIKeys(hf, gm) ==
  /\ ~apiKeys.loaded
  /\ apiKeys' = [loaded |-> TRUE, huggingface |-> hf, gemini |-> gm]
  /\ UNCHANGED <<call, fetchElapsed, burstFetches, feedVars, auxVars>>

\* generateResponse(data) is called and runs to its first await, or to its return.
GenerateResponse(message) ==
  /\ call.pc \notin FetchStates
  /\ burstFetches < MaxBurstCalls
  /\ IF ~apiKeys.loaded
       THEN /\ LocalTier(message, <<TierEntry("huggingface", FALSE, TRUE, Null)>>)
            /\ UNCHANGED <<fetchElapsed, burstFetches>>
     ELSE IF ~apiKeys.huggingface
       THEN GeminiTier(message, <<TierEntry("huggingface", FALSE, FALSE, Null)>>)
     ELSE /\ call' = [pc |-> "huggingfaceFetch", message |-> message, tiers |-> <<>>,
                      response |-> Null]
          /\ fetchElapsed' = 0
          /\ burstFetches' = burstFetches + 1
  /\ UNCHANGED <<apiKeys, feedVars, auxVars>>

\* The HuggingFace fetch settles; generateResponse resumes.
HuggingFaceSettles(outcome) ==
  /\ call.pc = "huggingfaceFetch"
  /\ LET hfResponse == afterFetch("huggingface", outcome)
         tiers == Append(call.tiers, TierEntry("huggingface", TRUE, FALSE, hfResponse))
     IN  IF Truthy(hfResponse)
           THEN /\ call' = [pc |-> "returned", message |-> call.message, tiers |-> tiers,
                            response |-> hfResponse]
                /\ UNCHANGED <<fetchElapsed, burstFetches>>
           ELSE GeminiTier(call.message, tiers)
  /\ UNCHANGED <<apiKeys, feedVars, auxVars>>

\* The Gemini fetch settles; generateResponse resumes.
GeminiSettles(outcome) ==
  /\ call.pc = "geminiFetch"
  /\ LET geminiResponse == afterFetch("gemini", outcome)
         tiers == Append(call.tiers, TierEntry("gemini", TRUE, FALSE, geminiResponse))
     IN  IF Truthy(geminiResponse)
           THEN call' = [pc |-> "returned", message |-> call.message, tiers |-> tiers,
                         response |-> geminiResponse]
           ELSE LocalTier(call.message, tiers)
  /\ UNCHANGED <<apiKeys, fetchElapsed, burstFetches, feedVars, auxVars>>

\* Time passes in the service worker; a pending fetch stays pending.
WorkerTick(d) ==
  /\ fetchElapsed + d <= MaxFetchWait
  /\ fetchElapsed' = IF call.pc \in FetchStates THEN fetchElapsed + d ELSE 0
  /\ burstFetches' = 0
  /\ UNCHANGED <<apiKeys, call, feedVars, auxVars>>

(***************************************************************************)
(* Contact identifiers: the adapter's resolution steps and hashString.     *)
(***************************************************************************)
\* The printable ASCII characters, in code order from 32.
Ascii ==
  <<
    " ", "!", "\"", "#", "$", "%", "&", "'", "(", ")", "*", "+", ",", "-", ".", "/",
    "0", "1", "2", "3", "4", "5", "6", "7", "8", "9", ":", ";", "<", "=", ">", "?",
    "@", "A", "B", "C", "D", "E", "F", "G", "H", "I", "J", "K", "L", "M", "N", "O",
    "P", "Q", "R", "S", "T", "U", "V", "W", "X", "Y", "Z", "[", "\\", "]", "^", "_",
    "U+60", "a", "b", "c", "d", "e", "f", "g", "h", "i", "j", "k", "l", "m", "n", "o",
    "p", "q", "r", "s", "t", "u", "v", "w", "x", "y", "z", "{", "|", "}", "~"
  >>

\* String.prototype.charCodeAt
charCodeAt(c) == 31 + CHOOSE k \in DOMAIN Ascii : Ascii[k] = c

HexDigits == <<"0", "1", "2", "3", "4", "5", "6", "7", "8", "9", "a", "b", "c", "d", "e", "f">>

\* A 32-bit integer as two 16-bit halves <<high, low>>.
Half == 65536

\* hash = ((hash << 5) - hash) + char; hash = hash & hash
hashStep(h, code) ==
  LET t == 31 * h[2] + code
  IN <<(31 * h[1] + t \div Half) % Half, t % Half>>

RECURSIVE hashLoop(_, _)
hashLoop(h, str) ==
  IF Len(str) = 0 THEN h ELSE hashLoop(hashStep(h, charCodeAt(Head(str))), Tail(str))

\* Math.abs of the signed 32-bit value.
abs32(h) ==
  IF h[1] < Half \div 2
    THEN h
    ELSE <<(Half - 1 - h[1] + (IF h[2] = 0 THEN 1 ELSE 0)) % Half, (Half - h[2]) % Half>>

\* The four hexadecimal digits of a 16-bit half.
hex4(n) ==
  <<HexDigits[(n \div 4096) + 1], HexDigits[((n \div 256) % 16) + 1],
    HexDigits[((n \div 16) % 16) + 1], HexDigits[(n % 16) + 1]>>

RECURSIVE stripZeros(_)
stripZeros(d) == IF Len(d) > 1 /\ Head(d) = "0" THEN stripZeros(Tail(d)) ELSE d

\* Number.prototype.toString(16)
toString16(h) == stripZeros(hex4(h[1]) \o hex4(h[2]))

\* WhatsAppAdapter.hashString, MessageDetector.hashString, PrivacyManager.simpleHash
hashString_Raw(str) == str

hashString(str) ==
  IF Len(str) = 0 THEN <<"0">> ELSE toString16(abs32(hashLoop(<<0, 0>>, str)))

\* What the page can show: the segment after chat/ in the URL, the document
\* title and the text of the contact header element (empty when absent).
UrlSegments == {<<>>, <<"1", "5", "5", "5", "1", "2", "3", "4", "5", "6", "7">>}

Titles == {<<>>, <<"W", "h", "a", "t", "s", "A", "p", "p">>, <<"A", "l", "i", "c", "e">>}

HeaderTexts == {<<>>, <<" ", "B", "o", "b", " ", "S", "m", "i", "t", "h", " ">>}

Pages == [url : UrlSegments, title : Titles, header : HeaderTexts]

BlankPage == [url |-> <<>>, title |-> <<"W", "h", "a", "t", "s", "A", "p", "p">>, header |-> <<>>]

\* Titles that name the application, not a contact.
AdapterAppTitles == {<<"W", "h", "a", "t", "s", "A", "p", "p">>, <<"W", "h", "a", "t", "s", "A", "p", "p", " ", "W", "e", "b">>}

DetectorAppTitles == {<<"W", "h", "a", "t", "s", "A", "p", "p">>, <<"I", "n", "s", "t", "a", "g", "r", "a", "m">>, <<"T", "e", "l", "e", "g", "r", "a", "m">>}

NoId == [step |-> "none", id |-> <<>>, raw |-> <<>>]

\* WhatsAppAdapter.extractContactIdFromURL: match[1] of /chat\/([^/?]+)/
extractContactIdFromURL(p) ==
  IF Len(p.url) > 0 THEN [step |-> "url", id |-> p.url, raw |-> p.url] ELSE NoId

\* WhatsAppAdapter.extractContactIdFromTitle
extractContactIdFromTitle(p) ==
  IF Len(p.title) > 0 /\ p.title \notin AdapterAppTitles
    THEN [step |-> "title", id |-> hashString(p.title), raw |-> p.title]
    ELSE NoId

\* WhatsAppAdapter.extractContactIdFromElements
extractContactIdFromElements(p) ==
  IF Len(p.header) > 0 /\ Len(trim(p.header)) > 0
    THEN [step |-> "element", id |-> hashString(trim(p.header)), raw |-> trim(p.header)]
    ELSE NoId

\* WhatsAppAdapter.getCurrentContactId: the first step that yields an id.
adapterGetCurrentContactId(p) ==
  IF extractContactIdFromURL(p) # NoId THEN extractContactIdFromURL(p)
  ELSE IF extractContactIdFromTitle(p) # NoId THEN extractContactIdFromTitle(p)
  ELSE extractContactIdFromElements(p)

\* MessageDetector.extractContactIdFromPage: the detector's own fallback.
extractContactIdFromPage(p) ==
  IF Len(p.url) > 0
    THEN [step |-> "url", id |-> p.url, raw |-> p.url]
  ELSE IF Len(p.title) > 0 /\ p.title \notin DetectorAppTitles
    THEN [step |-> "title", id |-> hashString(p.title), raw |-> p.title]
  ELSE NoId

PageInit ==
  /\ page = BlankPage
  /\ resolved = NoId

\* The user opens a conversation: URL, title and header change.
OpenPage(p) ==
  /\ page' = p
  /\ UNCHANGED <<resolved, feedVars, apiVars, privacyVars, workerVars, optionVars, extraVars>>

\* MessageDetector.getCurrentContactId(): through the adapter when it has the
\* method, else by extractContactIdFromPage.
ResolveContactId(viaAdapter) ==
  /\ resolved' = IF viaAdapter THEN adapterGetCurrentContactId(page)
                               ELSE extractContactIdFromPage(page)
  /\ UNCHANGED <<page, feedVars, apiVars, privacyVars, workerVars, optionVars, extraVars>>

(***************************************************************************)
(* PrivacyManager: hashing.                                                *)
(***************************************************************************)
\* The strings handed to the hash functions.
HashInputs ==
  {<<>>,
   <<"0">>,
   <<"a">>,
   <<"A", "l", "i", "c", "e">>,
   <<"1", "5", "5", "5", "1", "2", "3", "4", "5", "6", "7">>}

\* crypto.subtle.digest('SHA-256', ...) as lowercase hex, for the strings of HashInputs.
sha256Hex(str) ==
  CASE
       str = <<>> ->
           <<"e", "3", "b", "0", "c", "4", "4", "2", "9", "8", "f", "c", "1", "c", "1", "4",
             "9", "a", "f", "b", "f", "4", "c", "8", "9", "9", "6", "f", "b", "9", "2", "4",
             "2", "7", "a", "e", "4", "1", "e", "4", "6", "4", "9", "b", "9", "3", "4", "c",
             "a", "4", "9", "5", "9", "9", "1", "b", "7", "8", "5", "2", "b", "8", "5", "5">>
    [] str = <<"0">> ->
           <<"5", "f", "e", "c", "e", "b", "6", "6", "f", "f", "c", "8", "6", "f", "3", "8",
             "d", "9", "5", "2", "7", "8", "6", "c", "6", "d", "6", "9", "6", "c", "7", "9",
             "c", "2", "d", "b", "c", "2", "3", "9", "d", "d", "4", "e", "9", "1", "b", "4",
             "6", "7", "2", "9", "d", "7", "3", "a", "2", "7", "f", "b", "5", "7", "e", "9">>
    [] str = <<"a">> ->
           <<"c", "a", "9", "7", "8", "1", "1", "2", "c", "a", "1", "b", "b", "d", "c", "a",
             "f", "a", "c", "2", "3", "1", "b", "3", "9", "a", "2", "3", "d", "c", "4", "d",
             "a", "7", "8", "6", "e", "f", "f", "8", "1", "4", "7", "c", "4", "e", "7", "2",
             "b", "9", "8", "0", "7", "7", "8", "5", "a", "f", "e", "e", "4", "8", "b", "b">>
    [] str = <<"A", "l", "i", "c", "e">> ->
           <<"3", "b", "c", "5", "1", "0", "6", "2", "9", "7", "3", "c", "4", "5", "8", "d",
             "5", "a", "6", "f", "2", "d", "8", "d", "6", "4", "a", "0", "2", "3", "2", "4",
             "6", "3", "5", "4", "a", "d", "7", "e", "0", "6", "4", "b", "1", "e", "4", "e",
             "0", "0", "9", "e", "c", "8", "a", "0", "6", "9", "9", "a", "3", "0", "4", "3">>
    [] str = <<"1", "5", "5", "5", "1", "2", "3", "4", "5", "6", "7">> ->
           <<"d", "6", "7", "3", "6", "1", "3", "6", "e", "a", "8", "9", "6", "c", "1", "b",
             "f", "d", "c", "5", "5", "3", "e", "0", "e", "8", "6", "e", "7", "0", "2", "c",
             "7", "0", "d", "0", "6", "0", "d", "8", "0", "5", "6", "9", "6", "c", "a", "3",
             "e", "4", "e", "9", "e", "0", "9", "6", "1", "3", "5", "3", "8", "6", "0", "a">>

\* PrivacyManager.simpleHash: the same loop as the adapters' hashString.
simpleHash(str) == hashString(str)

\* PrivacyManager.hashString: SHA-256 when the Web Crypto API is there, else simpleHash.
pmHashString(str, cryptoAvailable) ==
  IF cryptoAvailable THEN sha256Hex(str) ELSE simpleHash(str)

HashModes == {"digest", "fallback", "adapter"}

hashIn(mode, str) ==
  IF mode = "adapter" THEN hashString(str) ELSE pmHashString(str, mode = "digest")

PrivacyInit == hashSeen = {}

\* A hash call: PrivacyManager.hashString with or without Web Crypto, or an
\* adapter's hashString.
HashCall(mode, str) ==
  /\ hashSeen' = hashSeen \cup {<<mode, str, hashIn(mode, str)>>}
  /\ UNCHANGED <<feedVars, apiVars, pageVars, workerVars, optionVars, extraVars>>

(***************************************************************************)
(* PrivacyManager: the patterns of anonymizeMessage and containsPII.       *)
(* A match is given by the index of its last character, 0 when the pattern *)
(* does not match at the start index.                                      *)
(***************************************************************************)
Digits == {"0", "1", "2", "3", "4", "5", "6", "7", "8", "9"}

Letters == {LowerCase[k] : k \in 1..26} \cup {UpperCase[k] : k \in 1..26}

\* \w
IsWord(c) == c \in Letters \cup Digits \cup {"_"}

WordAt(s, k) == k >= 1 /\ k <= Len(s) /\ IsWord(s[k])

\* \b between s[k - 1] and s[k]
Boundary(s, k) == WordAt(s, k - 1) # WordAt(s, k)

InClass(s, k, class) == k >= 1 /\ k <= Len(s) /\ s[k] \in class

\* The last index of the longest run of characters of the class that starts at
\* k; k - 1 when there is none.
RECURSIVE RunEnd(_, _, _)
RunEnd(s, k, class) == IF InClass(s, k, class) THEN RunEnd(s, k + 1, class) ELSE k - 1

MaxOf(S) == CHOOSE x \in S : \A y \in S : y <= x

StartsWith(s, k, word) ==
  k + Len(word) - 1 <= Len(s) /\ SubSeq(s, k, k + Len(word) - 1) = word

StartsWithCI(s, k, word) ==
  k + Len(word) - 1 <= Len(s) /\ toLowerCase(SubSeq(s, k, k + Len(word) - 1)) = word

PhoneSeparators == {"-", "."}

\* /\b\d{3}[-.]?\d{3}[-.]?\d{4}\b/
matchPhone(s, i) ==
  LET digitsAt(k, n) == \A j \in k..(k + n - 1) : InClass(s, j, Digits)
      skipSep(k) == IF InClass(s, k, PhoneSeparators) THEN k + 1 ELSE k
      a == skipSep(i + 3)
      b == skipSep(a + 3)
  IN IF /\ Boundary(s, i)
        /\ digitsAt(i, 3)
        /\ digitsAt(a, 3)
        /\ digitsAt(b, 4)
        /\ Boundary(s, b + 4)
       THEN b + 3
       ELSE 0

EmailLocalClass == Letters \cup Digits \cup {".", "_", "%", "+", "-"}

EmailDomainClass == Letters \cup Digits \cup {".", "-"}

EmailTldClass == Letters \cup {"|"}

\* /\b[A-Za-z0-9._%+-]+@[A-Za-z0-9.-]+\.[A-Z|a-z]{2,}\b/
matchEmail(s, i) ==
  LET at == RunEnd(s, i, EmailLocalClass) + 1
      domainEnd == RunEnd(s, at + 1, EmailDomainClass)
      tldEnds(k) == {t \in (k + 3)..RunEnd(s, k + 2, EmailTldClass) : Boundary(s, t + 1)}
      dots == {k \in (at + 1)..(domainEnd - 1) : s[k + 1] = "." /\ tldEnds(k) # {}}
  IN IF /\ Boundary(s, i)
        /\ at > i
        /\ InClass(s, at, {"@"})
        /\ dots # {}
       THEN MaxOf(tldEnds(MaxOf(dots)))
       ELSE 0

SpaceChars == {" ", "\t", "\n"}

Scheme == <<"h", "t", "t", "p">>

SchemeTail == <<":", "/", "/">>

\* /https?:\/\/[^\s]+/
matchUrl(s, i) ==
  LET a == IF InClass(s, i + Len(Scheme), {"s"}) THEN i + Len(Scheme) + 1 ELSE i + Len(Scheme)
      rest == a + Len(SchemeTail)
      nonSpace == {s[k] : k \in 1..Len(s)} \ SpaceChars
  IN IF /\ StartsWith(s, i, Scheme)
        /\ StartsWith(s, a, SchemeTail)
        /\ InClass(s, rest, nonSpace)
       THEN RunEnd(s, rest, nonSpace)
       ELSE 0

CommonNames ==
  <<<<"j", "o", "h", "n">>,
    <<"j", "a", "n", "e">>,
    <<"m", "i", "k", "e">>,
    <<"s", "a", "r", "a", "h">>,
    <<"d", "a", "v", "i", "d">>,
    <<"l", "i", "s", "a">>,
    <<"t", "o", "m">>,
    <<"a", "m", "y">>,
    <<"c", "h", "r", "i", "s">>,
    <<"e", "m", "m", "a">>>>

\* /\b(John|Jane|Mike|Sarah|David|Lisa|Tom|Amy|Chris|Emma)\b/gi
matchName(s, i) ==
  LET hits == {n \in DOMAIN CommonNames :
                 /\ StartsWithCI(s, i, CommonNames[n])
                 /\ Boundary(s, i + Len(CommonNames[n]))}
  IN IF Boundary(s, i) /\ hits # {}
       THEN i + Len(CommonNames[CHOOSE n \in hits : \A m \in hits : n <= m]) - 1
       ELSE 0

StreetWords ==
  <<<<"s", "t", "r", "e", "e", "t">>,
    <<"s", "t">>,
    <<"a", "v", "e", "n", "u", "e">>,
    <<"a", "v", "e">>,
    <<"r", "o", "a", "d">>,
    <<"r", "d">>,
    <<"b", "o", "u", "l", "e", "v", "a", "r", "d">>,
    <<"b", "l", "v", "d">>,
    <<"d", "r", "i", "v", "e">>,
    <<"d", "r">>>>

AddressBodyClass == Letters \cup SpaceChars

\* /\b\d+\s+[A-Za-z\s]+(Street|St|Avenue|Ave|Road|Rd|Boulevard|Blvd|Drive|Dr)\b/gi
matchAddress(s, i) ==
  LET digitsEnd == RunEnd(s, i, Digits)
      spaceEnd == RunEnd(s, digitsEnd + 1, SpaceChars)
      bodyEnd == RunEnd(s, digitsEnd + 1, AddressBodyClass)
      \* the street word starts at k: at least one space and one body character precede it
      wordsAt(k) == {n \in DOMAIN StreetWords :
                      /\ StartsWithCI(s, k, StreetWords[n])
                      /\ Boundary(s, k + Len(StreetWords[n]))}
      starts == {k \in (digitsEnd + 3)..bodyEnd : wordsAt(k) # {}}
  IN IF /\ Boundary(s, i)
        /\ digitsEnd >= i
        /\ spaceEnd > digitsEnd
        /\ starts # {}
       THEN LET k == MaxOf(starts)
                n == CHOOSE n \in wordsAt(k) : \A m \in wordsAt(k) : n <= m
            IN k + Len(StreetWords[n]) - 1
       ELSE 0

UpperLetters == {UpperCase[k] : k \in 1..26}

LowerLetters == {LowerCase[k] : k \in 1..26}

\* /\b[A-Z][a-z]+\s+[A-Z][a-z]+\b/
matchFullName(s, i) ==
  LET firstEnd == RunEnd(s, i + 1, LowerLetters)
      spaceEnd == RunEnd(s, firstEnd + 1, SpaceChars)
      lastEnd == RunEnd(s, spaceEnd + 2, LowerLetters)
  IN IF /\ Boundary(s, i)
        /\ InClass(s, i, UpperLetters)
        /\ firstEnd > i
        /\ spaceEnd > firstEnd
        /\ InClass(s, spaceEnd + 1, UpperLetters)
        /\ lastEnd > spaceEnd + 1
        /\ Boundary(s, lastEnd + 1)
       THEN lastEnd
       ELSE 0

matchAt(pattern, s, i) ==
  CASE pattern = "phone" -> matchPhone(s, i)
    [] pattern = "email" -> matchEmail(s, i)
    [] pattern = "url" -> matchUrl(s, i)
    [] pattern = "commonNames" -> matchName(s, i)
    [] pattern = "address" -> matchAddress(s, i)
    [] pattern = "fullName" -> matchFullName(s, i)

\* RegExp.prototype.test
test(pattern, s) == \E i \in 1..Len(s) : matchAt(pattern, s, i) > 0

RECURSIVE replaceFrom(_, _, _, _)
replaceFrom(s, i, pattern, replacement) ==
  IF i > Len(s)
    THEN <<>>
    ELSE LET e == matchAt(pattern, s, i)
         IN IF e > 0
              THEN replacement \o replaceFrom(s, e + 1, pattern, replacement)
              ELSE <<s[i]>> \o replaceFrom(s, i + 1, pattern, replacement)

\* String.prototype.replace with a global pattern
replace(s, pattern, replacement) == replaceFrom(s, 1, pattern, replacement)

PHONE == <<"[", "P", "H", "O", "N", "E", "]">>

EMAIL == <<"[", "E", "M", "A", "I", "L", "]">>

URL == <<"[", "U", "R", "L", "]">>

NAME == <<"[", "N", "A", "M", "E", "]">>

ADDRESS == <<"[", "A", "D", "D", "R", "E", "S", "S", "]">>

anonymizePhoneEmail(message) == replace(replace(message, "phone", PHONE), "email", EMAIL)

anonymizeMessage(message) ==
  replace(replace(replace(anonymizePhoneEmail(message), "url", URL),
                  "commonNames", NAME),
          "address", ADDRESS)

\* JSON.stringify of a string value
RECURSIVE escapeJSON(_)
escapeJSON(s) ==
  IF s = <<>>
    THEN <<>>
    ELSE (CASE Head(s) = "\"" -> <<"\\", "\"">>
            [] Head(s) = "\\" -> <<"\\", "\\">>
            [] Head(s) = "\n" -> <<"\\", "n">>
            [] Head(s) = "\t" -> <<"\\", "t">>
            [] OTHER -> <<Head(s)>>) \o escapeJSON(Tail(s))

jsonStringify(s) == <<"\"">> \o escapeJSON(s) \o <<"\"">>

piiPatterns == <<"phone", "email", "address", "fullName">>

containsPIIIn(patterns, data) ==
  LET dataString == jsonStringify(data)
  IN \E k \in DOMAIN patterns : test(patterns[k], dataString)

containsPII(data) == containsPIIIn(piiPatterns, data)

(***************************************************************************)
(* PrivacyManager: encryptData and decryptData.  A value is a string, an   *)
(* array of bytes, or an object JSON.stringify throws on.  AES-GCM is      *)
(* modelled by a keyed, invertible byte transformation with a one-byte     *)
(* authentication tag.                                                     *)
(***************************************************************************)
MaxKeys == 2

MaxStored == 2

ByteRange == 256

IvLength == 12

NoKey == 0

StrValue(text) == [kind |-> "string", text |-> text, items |-> <<>>]

ArrValue(items) == [kind |-> "array", text |-> <<>>, items |-> items]

Circular == [kind |-> "circular", text |-> <<>>, items |-> <<>>]

isArray(value) == value.kind = "array"

Threw == [ok |-> FALSE, text |-> <<>>, value |-> Circular, bytes |-> <<>>]

RECURSIVE join(_, _)
join(lines, separator) ==
  IF lines = <<>> THEN <<>>
  ELSE IF Len(lines) = 1 THEN lines[1]
  ELSE lines[1] \o separator \o join(Tail(lines), separator)

RECURSIVE decimal(_)
decimal(n) ==
  IF n < 10 THEN <<HexDigits[n + 1]>> ELSE decimal(n \div 10) \o <<HexDigits[(n % 10) + 1]>>

RECURSIVE numberOf(_)
numberOf(digits) ==
  IF digits = <<>>
    THEN 0
    ELSE 10 * numberOf(SubSeq(digits, 1, Len(digits) - 1))
           + (CHOOSE d \in 0..9 : HexDigits[d + 1] = digits[Len(digits)])

\* JSON.stringify
stringify(value) ==
  CASE value.kind = "string" -> [Threw EXCEPT !.ok = TRUE, !.text = jsonStringify(value.text)]
    [] value.kind = "array" ->
         [Threw EXCEPT !.ok = TRUE,
                       !.text = <<"[">> \o join([i \in DOMAIN value.items |-> decimal(value.items[i])],
                                               <<",">>) \o <<"]">>]
    [] OTHER -> Threw

RECURSIVE unescapeJSON(_)
unescapeJSON(s) ==
  IF s = <<>> THEN <<>>
  ELSE IF Head(s) = "\\" /\ Len(s) >= 2
    THEN <<(CASE s[2] = "n" -> "\n" [] s[2] = "t" -> "\t" [] OTHER -> s[2])>>
           \o unescapeJSON(SubSeq(s, 3, Len(s)))
  ELSE <<Head(s)>> \o unescapeJSON(Tail(s))

RECURSIVE parseItems(_)
parseItems(s) ==
  IF s = <<>>
    THEN <<>>
    ELSE LET e == RunEnd(s, 1, Digits)
         IN <<numberOf(SubSeq(s, 1, e))>> \o parseItems(SubSeq(s, e + 2, Len(s)))

\* JSON.parse
parse(text) ==
  LET inner == SubSeq(text, 2, Len(text) - 1)
  IN IF Len(text) >= 2 /\ text[1] = "\"" /\ text[Len(text)] = "\""
       THEN [Threw EXCEPT !.ok = TRUE, !.value = StrValue(unescapeJSON(inner))]
     ELSE IF /\ Len(text) >= 2 /\ text[1] = "[" /\ text[Len(text)] = "]"
             /\ \A k \in DOMAIN inner : inner[k] \in Digits \cup {","}
             /\ \A k \in DOMAIN inner :
                  inner[k] = "," => InClass(inner, k - 1, Digits) /\ InClass(inner, k + 1, Digits)
       THEN [Threw EXCEPT !.ok = TRUE, !.value = ArrValue(parseItems(inner))]
     ELSE Threw

\* TextEncoder.encode
encode(text) == [i \in DOMAIN text |-> charCodeAt(text[i])]

\* TextDecoder.decode
decode(bytes) ==
  IF \A i \in DOMAIN bytes : bytes[i] - 31 \in DOMAIN Ascii
    THEN [Threw EXCEPT !.ok = TRUE, !.text = [i \in DOMAIN bytes |-> Ascii[bytes[i] - 31]]]
    ELSE Threw

RECURSIVE sum(_)
sum(bytes) == IF bytes = <<>> THEN 0 ELSE Head(bytes) + sum(Tail(bytes))

tagOf(key, iv, plain) == (key + sum(iv) + sum(plain)) % ByteRange

\* crypto.subtle.encrypt({ name: 'AES-GCM', iv }, key, dataBuffer)
aesGcmEncrypt(key, iv, plain) ==
  [i \in DOMAIN plain |-> (plain[i] + key + iv[1] + i) % ByteRange] \o <<tagOf(key, iv, plain)>>

\* crypto.subtle.decrypt({ name: 'AES-GCM', iv }, key, data)
aesGcmDecrypt(key, iv, data) ==
  IF Len(iv) < IvLength \/ data = <<>>
    THEN Threw
    ELSE LET body == SubSeq(data, 1, Len(data) - 1)
             plain == [i \in DOMAIN body |->
                         (body[i] + 3 * ByteRange - key - iv[1] - i) % ByteRange]
         IN IF data[Len(data)] = tagOf(key, iv, plain)
              THEN [Threw EXCEPT !.ok = TRUE, !.bytes = plain]
              ELSE Threw

\* The values crypto.getRandomValues may give the IV.
Nonces == {0, 7}

IVs == {[i \in 1..IvLength |-> nonce] : nonce \in Nonces}

slice(bytes, from, to) == SubSeq(bytes, from + 1, IF to < Len(bytes) THEN to ELSE Len(bytes))

encryptData_DropIV(data, cryptoAvailable, key, iv) ==
  LET json == stringify(data)
  IN IF cryptoAvailable /\ key # NoKey /\ json.ok
       THEN ArrValue(aesGcmEncrypt(key, iv, encode(json.text)))
       ELSE data

encryptData(data, cryptoAvailable, key, iv) ==
  LET json == stringify(data)
  IN IF cryptoAvailable /\ key # NoKey /\ json.ok
       THEN ArrValue(iv \o aesGcmEncrypt(key, iv, encode(json.text)))
       ELSE data

decryptData(encryptedData, cryptoAvailable, key) ==
  IF cryptoAvailable /\ key # NoKey /\ isArray(encryptedData)
    THEN LET encryptedArray == [i \in DOMAIN encryptedData.items |->
                                  encryptedData.items[i] % ByteRange]
             iv == slice(encryptedArray, 0, IvLength)
             data == slice(encryptedArray, IvLength, Len(encryptedArray))
             decrypted == aesGcmDecrypt(key, iv, data)
             text == IF decrypted.ok THEN decode(decrypted.bytes) ELSE Threw
             parsed == IF text.ok THEN parse(text.text) ELSE Threw
         IN IF parsed.ok THEN parsed.value ELSE encryptedData
    ELSE encryptedData

(***************************************************************************)
(* Service worker: handleAIRequest.  A request record is a function from   *)
(* its field names to their values.                                        *)
(***************************************************************************)
MaxRequestWindow == 1

T_hi == <<"h", "i">>

T_pii == <<"c", "a", "l", "l", " ", "m", "e", " ", "a", "t", " ", "5", "5", "5", "-", "1", "2", "3", "-", "4", "5", "6", "7", " ", "o", "r", " ", "a", "@", "b", ".", "c", "o", "m">>

RequestMessages == {T_hi, T_pii}

T_whatsapp == <<"w", "h", "a", "t", "s", "a", "p", "p">>

T_Alice == <<"A", "l", "i", "c", "e">>

T_phoneNumber == <<"5", "5", "5", "1", "2", "3", "4", "5", "6", "7">>

T_email == <<"a", "@", "b", ".", "c", "o", "m">>

T_fullName == <<"A", "l", "i", "c", "e", " ", "L", "i", "d", "d", "e", "l", "l">>

T_high == <<"h", "i", "g", "h">>

T_Them == <<"T", "h", "e", "m">>

T_You == <<"Y", "o", "u">>

\* conversationStyle of a contact, in tenths
ContactStyles == {[formalityLevel |-> 5, emojiUsage |-> 5], [formalityLevel |-> 8, emojiUsage |-> 6]}

\* The context windows of the content script that hold a received message.
RequestWindows ==
  {w \in UNION {[1..n -> [type : {"received", "sent"}, message : RequestMessages]] :
                  n \in 1..MaxRequestWindow} :
     \E i \in DOMAIN w : w[i].type = "received"}

\* buildConversationContext with the lines flattened to text
flattenContext(ctx) ==
  LET pairs == buildConversationContext(ctx)
  IN join([i \in DOMAIN pairs |->
             (IF pairs[i][1] = "Them" THEN T_Them ELSE T_You) \o <<":", " ">> \o pairs[i][2]],
          <<"\n">>)

lastReceived(ctx) ==
  ctx[CHOOSE i \in DOMAIN ctx :
        /\ ctx[i].type = "received"
        /\ \A j \in DOMAIN ctx : ctx[j].type = "received" => j <= i]

\* The data of the GET_AI_RESPONSE request generateSuggestions sends.
suggestionRequest(ctx, style) ==
  [f \in {"message", "context", "contactId", "platform", "contactStyle"} |->
     CASE f = "message" -> lastReceived(ctx).message
       [] f = "context" -> flattenContext(ctx)
       [] f = "contactId" -> hashString(T_phoneNumber)
       [] f = "platform" -> T_whatsapp
       [] f = "contactStyle" -> style]

ExtraFields == {"phoneNumber", "email", "fullName"}

ContactNames == {<<>>, T_Alice}

withExtras(data, contactName) ==
  [f \in DOMAIN data \cup ExtraFields \cup {"contactName"} |->
     CASE f = "phoneNumber" -> T_phoneNumber
       [] f = "email" -> T_email
       [] f = "fullName" -> T_fullName
       [] f = "contactName" -> contactName
       [] OTHER -> data[f]]

\* The requests of the content script, and requests that also carry the
\* identifying fields of the contact.
AIRequests ==
  {suggestionRequest(ctx, style) : ctx \in RequestWindows, style \in ContactStyles}
    \cup {withExtras(suggestionRequest(ctx, style), contactName) :
             ctx \in RequestWindows, style \in ContactStyles, contactName \in ContactNames}

DeniedFields == {"contactId", "phoneNumber", "email", "fullName", "platform"}

sanitizeData_KeepPlatform(data, cryptoAvailable, timestamp) ==
  [f \in (DOMAIN data \ (DeniedFields \ {"platform"})) \cup {"privacyLevel", "timestamp"} |->
     CASE f = "privacyLevel" -> T_high
       [] f = "timestamp" -> timestamp
       [] f = "contactName" /\ data[f] # <<>> -> pmHashString(data[f], cryptoAvailable)
       [] f = "message" /\ data[f] # <<>> -> anonymizeMessage(data[f])
       [] OTHER -> data[f]]

sanitizeData(data, cryptoAvailable, timestamp) ==
  [f \in (DOMAIN data \ DeniedFields) \cup {"privacyLevel", "timestamp"} |->
     CASE f = "privacyLevel" -> T_high
       [] f = "timestamp" -> timestamp
       [] f = "contactName" /\ data[f] # <<>> -> pmHashString(data[f], cryptoAvailable)
       [] f = "message" /\ data[f] # <<>> -> anonymizeMessage(data[f])
       [] OTHER -> data[f]]

T_ContextLabel == <<"C", "o", "n", "t", "e", "x", "t", ":", " ">>

T_GeneralConversation == <<"G", "e", "n", "e", "r", "a", "l", " ", "c", "o", "n", "v", "e", "r", "s", "a", "t", "i", "o", "n">>

T_ContactStyleLabel == <<"C", "o", "n", "t", "a", "c", "t", " ", "s", "t", "y", "l", "e", ":", " ">>

T_EmojiUsageLabel == <<"E", "m", "o", "j", "i", " ", "u", "s", "a", "g", "e", ":", " ">>

T_MessageLabel == <<"M", "e", "s", "s", "a", "g", "e", ":", " ">>

T_ResponseLabel == <<"R", "e", "s", "p", "o", "n", "s", "e", ":">>

has(data, f) == f \in DOMAIN data

buildHFPrompt(data) ==
  LET context == IF has(data, "context") /\ data["context"] # <<>>
                   THEN data["context"] ELSE T_GeneralConversation
      style == IF has(data, "contactStyle")
                 THEN T_ContactStyleLabel
                      \o (IF data["contactStyle"].formalityLevel > 7
                            THEN <<"F", "o", "r", "m", "a", "l">> ELSE <<"C", "a", "s", "u", "a", "l">>)
                      \o <<",", " ">> \o T_EmojiUsageLabel
                      \o (IF data["contactStyle"].emojiUsage > 5
                            THEN <<"H", "i", "g", "h">> ELSE <<"L", "o", "w">>)
                      \o <<"\n">>
                 ELSE <<>>
  IN T_ContextLabel \o context \o <<"\n">> \o style
       \o T_MessageLabel \o data["message"] \o <<"\n">> \o T_ResponseLabel

T_GeminiLead == <<"Y", "o", "u", " ", "a", "r", "e", " ", "a", " ", "h", "e", "l", "p", "f", "u", "l", " ", "A", "I", " ", "t", "e", "x", "t", "i", "n", "g", " ", "a", "s", "s", "i", "s", "t", "a", "n", "t", ".", " ", "G", "e", "n", "e", "r", "a", "t", "e", " ", "a", " ", "n", "a", "t", "u", "r", "a", "l", ",", " ", "c", "o", "n", "t", "e", "x", "t", "u", "a", "l", " ", "r", "e", "s", "p", "o", "n", "s", "e", " ", "t", "o", " ", "t", "h", "i", "s", " ", "m", "e", "s", "s", "a", "g", "e", ":", "\n", "\n">>

T_GeminiContextLabel == <<"C", "o", "n", "v", "e", "r", "s", "a", "t", "i", "o", "n", " ", "c", "o", "n", "t", "e", "x", "t", ":", " ">>

T_MatchStyle == <<"M", "a", "t", "c", "h", " ", "t", "h", "i", "s", " ", "s", "t", "y", "l", "e", ":", " ">>

T_FormalityLabel == <<"F", "o", "r", "m", "a", "l", "i", "t", "y", " ", "l", "e", "v", "e", "l", ":", " ">>

buildGeminiPrompt(data) ==
  LET context == IF has(data, "context") /\ data["context"] # <<>>
                   THEN T_GeminiContextLabel \o data["context"] \o <<"\n", "\n">>
                   ELSE <<>>
      style == IF has(data, "contactStyle")
                 THEN T_MatchStyle \o T_FormalityLabel
                      \o (IF data["contactStyle"].formalityLevel > 7
                            THEN <<"f", "o", "r", "m", "a", "l">> ELSE <<"c", "a", "s", "u", "a", "l">>)
                      \o <<",", " ">> \o T_EmojiUsageLabel
                      \o (IF data["contactStyle"].emojiUsage > 5
                            THEN <<"i", "n", "c", "l", "u", "d", "e", " ", "e", "m", "o", "j", "i", "s">> ELSE <<"m", "i", "n", "i", "m", "a", "l", " ", "e", "m", "o", "j", "i", "s">>)
                      \o <<"\n", "\n">>
                 ELSE <<>>
  IN T_GeminiLead \o context \o style
       \o T_MessageLabel \o <<"\"">> \o data["message"] \o <<"\"", "\n", "\n">> \o T_ResponseLabel

Providers == {"huggingface", "gemini"}

buildPrompt(provider, data) ==
  IF provider = "huggingface" THEN buildHFPrompt(data) ELSE buildGeminiPrompt(data)

NoData == [f \in {} |-> <<>>]

IdleRequest ==
  [pc |-> "idle", data |-> NoData, payload |-> NoData, provider |-> "none", prompt |-> <<>>,
   response |-> <<>>]

T_response == <<"S", "o", "u", "n", "d", "s", " ", "g", "o", "o", "d">>

T_hfKey == <<"h", "f", "_", "s", "e", "c", "r", "e", "t">>

T_geminiKey == <<"A", "I", "z", "a", "_", "s", "e", "c", "r", "e", "t">>

ConversationCapacity == 1000

\* result.conversationData || []
storedConversations ==
  IF storage.conversationData.kind = "list" THEN storage.conversationData.entries ELSE <<>>

\* Values in chrome.storage.local.
Absent == [kind |-> "undefined"]

PlainObject(fields) == [kind |-> "object", fields |-> fields]

PlainList(entries) == [kind |-> "list", entries |-> entries]

EmptyStorage == [encryptionKey |-> NoKey, apiKeys |-> Absent, conversationData |-> Absent]

KeyInitStart == [pc |-> "get", key |-> NoKey]

KeyInitDone == [pc |-> "done", key |-> NoKey]

VaultRecords ==
  {StrValue(T_hi),
   StrValue(<<"a", "\"", "b", "\\", "c">>),
   ArrValue(<<>>),
   ArrValue(<<1, 2, 3>>),
   ArrValue([i \in 1..(IvLength + 2) |-> 20 * i]),
   Circular}

Mode(cryptoAvailable, key) == [crypto |-> cryptoAvailable, key |-> key]

Degraded(mode) == ~mode.crypto \/ mode.key = NoKey

EmptyVault ==
  [pc |-> "empty", record |-> Circular, stored |-> Circular, result |-> Circular,
   encMode |-> Mode(FALSE, NoKey), decMode |-> Mode(FALSE, NoKey)]

NoScrub == [called |-> FALSE, body |-> <<>>, scrubbed |-> <<>>, again |-> <<>>]

WorkerInit ==
  /\ aiRequest = IdleRequest
  /\ scrub = NoScrub
  /\ encryptionKey = NoKey
  /\ keyInit = KeyInitStart
  /\ keysGenerated = 0
  /\ storage = EmptyStorage
  /\ vault = EmptyVault

\* initializeEncryption resumes after its storage read: it adopts the stored
\* key, or generates one and issues the storage write; a failed read leaves a
\* fallback key that is not written.
InitReadsStorage(readFails) ==
  /\ keyInit.pc = "get"
  /\ IF ~readFails /\ storage.encryptionKey # NoKey
       THEN /\ encryptionKey' = storage.encryptionKey
            /\ keyInit' = KeyInitDone
            /\ UNCHANGED keysGenerated
       ELSE /\ keysGenerated < MaxKeys
            /\ keysGenerated' = keysGenerated + 1
            /\ encryptionKey' = keysGenerated + 1
            /\ keyInit' = IF readFails THEN KeyInitDone
                           ELSE [pc |-> "set", key |-> keysGenerated + 1]
  /\ UNCHANGED <<feedVars, apiVars, pageVars, privacyVars, requestVars, scrubVars, storeVars, vaultVars, optionVars, extraVars>>

\* The storage write of initializeEncryption settles; a failed write is caught
\* and replaced by a fallback key.
InitPersistsKey(writeFails) ==
  /\ keyInit.pc = "set"
  /\ IF writeFails
       THEN /\ keysGenerated < MaxKeys
            /\ keysGenerated' = keysGenerated + 1
            /\ encryptionKey' = keysGenerated + 1
            /\ UNCHANGED storage
       ELSE /\ storage' = [storage EXCEPT !.encryptionKey = keyInit.key]
            /\ UNCHANGED <<encryptionKey, keysGenerated>>
  /\ keyInit' = KeyInitDone
  /\ UNCHANGED <<feedVars, apiVars, pageVars, privacyVars, requestVars, scrubVars, vaultVars, optionVars, extraVars>>

\* PrivacyManager.clearAllData
ClearAllData ==
  /\ keyInit.pc = "done"
  /\ storage' = EmptyStorage
  /\ encryptionKey' = NoKey
  /\ keyInit' = KeyInitStart
  /\ UNCHANGED <<keysGenerated, feedVars, apiVars, pageVars, privacyVars, requestVars, scrubVars, vaultVars, optionVars, extraVars>>

\* onMessage CLEAR_DATA: handleDataClear
HandleDataClear ==
  /\ storage' = EmptyStorage
  /\ UNCHANGED <<keyVars, feedVars, apiVars, pageVars, privacyVars, requestVars, scrubVars, vaultVars, optionVars, extraVars>>

\* The service worker is stopped and started again: its objects are constructed
\* anew, chrome.storage.local is kept.
Restart ==
  /\ encryptionKey' = NoKey
  /\ keyInit' = KeyInitStart
  /\ aiRequest' = IdleRequest
  /\ apiKeys' = [loaded |-> FALSE, huggingface |-> FALSE, gemini |-> FALSE]
  /\ call' = IdleCall
  /\ fetchElapsed' = 0
  /\ UNCHANGED <<burstFetches, keysGenerated, feedVars, pageVars, privacyVars, scrubVars, storeVars, vaultVars, optionVars, extraVars>>

\* encryptData(record)
EncryptData(record, cryptoAvailable, iv) ==
  /\ vault' = [EmptyVault EXCEPT
                 !.pc = "encrypted", !.record = record,
                 !.stored = encryptData(record, cryptoAvailable, encryptionKey, iv),
                 !.encMode = Mode(cryptoAvailable, encryptionKey)]
  /\ UNCHANGED <<feedVars, apiVars, pageVars, privacyVars, requestVars, scrubVars, keyVars, storeVars, optionVars, extraVars>>

\* decryptData of the value encryptData returned
DecryptData(cryptoAvailable) ==
  /\ vault.pc = "encrypted"
  /\ vault' = [vault EXCEPT
                 !.pc = "decrypted",
                 !.result = decryptData(vault.stored, cryptoAvailable, encryptionKey),
                 !.decMode = Mode(cryptoAvailable, encryptionKey)]
  /\ UNCHANGED <<feedVars, apiVars, pageVars, privacyVars, requestVars, scrubVars, keyVars, storeVars, optionVars, extraVars>>

ScrubPrefixes == {<<>>, <<"c", "a", "l", "l", " ", "m", "e", " ", "a", "t", " ">>, <<"c", "a", "l", "l", " ", "m", "e", "\n">>}

ScrubItems ==
  {<<"5", "5", "5", "-", "1", "2", "3", "-", "4", "5", "6", "7">>,
   <<"5", "5", "5", ".", "1", "2", "3", ".", "4", "5", "6", "7">>,
   <<"5", "5", "5", "1", "2", "3", "4", "5", "6", "7">>,
   T_email,
   T_hi}

ScrubSuffixes == {<<>>, <<" ", "o", "r", " ", "a", "@", "b", ".", "c", "o", "m">>, <<"h", "t", "t", "p", ":", "/", "/", "a">>}

ScrubBodies ==
  {prefix \o item \o suffix :
     prefix \in ScrubPrefixes, item \in ScrubItems, suffix \in ScrubSuffixes}

\* anonymizeMessage(body), and anonymizeMessage of its result.
ScrubMessage(body) ==
  /\ LET scrubbed == anonymizeMessage(body)
     IN scrub' = [called |-> TRUE, body |-> body, scrubbed |-> scrubbed,
                  again |-> anonymizeMessage(scrubbed)]
  /\ UNCHANGED <<feedVars, apiVars, pageVars, privacyVars, requestVars, keyVars, storeVars, vaultVars, optionVars, extraVars>>

\* onMessage GET_AI_RESPONSE: handleAIRequest runs up to the call of generateResponse.
HandleAIRequest(data, cryptoAvailable) ==
  /\ aiRequest.pc = "idle"
  /\ Len(storedConversations) < MaxStored
  /\ aiRequest' = [IdleRequest EXCEPT !.pc = "generateResponse", !.data = data,
                                      !.payload = sanitizeData(data, cryptoAvailable, now)]
  /\ UNCHANGED <<feedVars, apiVars, pageVars, privacyVars, scrubVars, keyVars, storeVars, vaultVars, optionVars, extraVars>>

\* tryHuggingFace or tryGoogleGemini builds its prompt and issues the fetch.
ProviderFetch(provider) ==
  /\ apiKeys.loaded /\ apiKeys[provider]
  /\ IF provider = "huggingface"
       THEN aiRequest.pc = "generateResponse"
       ELSE \/ aiRequest.pc = "generateResponse" /\ ~apiKeys.huggingface
            \/ aiRequest.pc = "fetch" /\ aiRequest.provider = "huggingface"
  /\ aiRequest' = [aiRequest EXCEPT !.pc = "fetch", !.provider = provider,
                                    !.prompt = buildPrompt(provider, aiRequest.payload)]
  /\ UNCHANGED <<feedVars, apiVars, pageVars, privacyVars, scrubVars, keyVars, storeVars, vaultVars, optionVars, extraVars>>

\* generateResponse returns; handleAIRequest calls storeConversationData, which
\* issues its storage read, and sends the response.
SendAIResponse(response) ==
  /\ aiRequest.pc \in {"generateResponse", "fetch"}
  /\ aiRequest' = [aiRequest EXCEPT !.pc = "store", !.response = response]
  /\ UNCHANGED <<feedVars, apiVars, pageVars, privacyVars, scrubVars, keyVars, storeVars, vaultVars, optionVars, extraVars>>

\* Date.now() as whole days and the milliseconds of the running day.
Stamp(day, ms) == [day |-> day, ms |-> ms]

dateNow == Stamp(today, now)

\* The storage read of storeConversationData calls back: the conversation is
\* appended and written.
StoreConversation ==
  /\ aiRequest.pc = "store"
  /\ LET conversationData ==
           [contactId |-> aiRequest.data["contactId"],
            platform |-> aiRequest.data["platform"],
            message |-> aiRequest.data["message"],
            response |-> aiRequest.response,
            timestamp |-> dateNow,
            success |-> TRUE]
         conversations == Append(storedConversations, conversationData)
     IN storage' = [storage EXCEPT
                      !.conversationData =
                         PlainList(LastN(conversations, ConversationCapacity))]
  /\ aiRequest' = IdleRequest
  /\ UNCHANGED <<feedVars, apiVars, pageVars, privacyVars, scrubVars, keyVars, vaultVars, optionVars, extraVars>>

\* APIManager.updateAPIKeys({ [provider]: key })
UpdateAPIKeys(provider) ==
  /\ apiKeys.loaded
  /\ apiKeys' = [apiKeys EXCEPT ![provider] = TRUE]
  /\ storage' = [storage EXCEPT
                   !.apiKeys =
                      PlainObject([huggingface |-> IF apiKeys'.huggingface THEN T_hfKey ELSE <<>>,
                                   gemini |-> IF apiKeys'.gemini THEN T_geminiKey ELSE <<>>])]
  /\ UNCHANGED <<call, fetchElapsed, burstFetches, feedVars, pageVars, privacyVars,
                 requestVars, scrubVars, keyVars, vaultVars, optionVars, extraVars>>

(***************************************************************************)
(* ChatsyContentScript: the suggestion options built from one response.    *)
(***************************************************************************)
delayPhrases ==
  <<<<"T", "h", "a", "n", "k", "s", " ", "f", "o", "r", " ", "t", "h", "a", "t", "!", " ">>,
    <<"I", " ", "a", "p", "p", "r", "e", "c", "i", "a", "t", "e", " ", "y", "o", "u", " ", "s", "h", "a", "r", "i", "n", "g", " ", "t", "h", "a", "t", ".", " ">>,
    <<"T", "h", "a", "t", "'", "s", " ", "i", "n", "t", "e", "r", "e", "s", "t", "i", "n", "g", "!", " ">>,
    <<"I", " ", "s", "e", "e", " ", "w", "h", "a", "t", " ", "y", "o", "u", " ", "m", "e", "a", "n", ".", " ">>>>

addPoliteDelay_After(response, randomIndex) == response \o delayPhrases[randomIndex]

\* randomIndex is Math.floor(Math.random() * delayPhrases.length) + 1
addPoliteDelay(response, randomIndex) == delayPhrases[randomIndex] \o response

T_WhatDoYouThink == <<" ", "W", "h", "a", "t", " ", "d", "o", " ", "y", "o", "u", " ", "t", "h", "i", "n", "k", "?">>

T_Smile == <<" ", "U+1F60A">>

NoStyle == [formalityLevel |-> 0, emojiUsage |-> 0]

\* style is currentContact?.conversationStyle, NoStyle when there is none
makeEngaging(response, style) ==
  LET asked == IF ~includes(response, <<"?">>) /\ ~includes(response, <<"!">>)
                 THEN response \o T_WhatDoYouThink ELSE response
  IN IF style.emojiUsage > 5 THEN asked \o T_Smile ELSE asked

generateSuggestionOptions(aiResponse, randomIndex, style) ==
  <<[id |-> "direct", text |-> aiResponse, type |-> "direct", description |-> "Use as is"],
    [id |-> "polite", text |-> addPoliteDelay(aiResponse, randomIndex), type |-> "polite",
     description |-> "Add polite delay"],
    [id |-> "engaging", text |-> makeEngaging(aiResponse, style), type |-> "engaging",
     description |-> "Make more engaging"]>>

SeqRange(s) == {s[i] : i \in DOMAIN s}

\* The responses generateResponse can return.
BaseResponses ==
  SeqRange(GreetingResponses) \cup SeqRange(ThanksResponses) \cup SeqRange(FarewellResponses)
    \cup {T_response, <<"S", "u", "r", "e">>, <<"A", "r", "e", " ", "y", "o", "u", " ", "f", "r", "e", "e", "?">>}

NoOptions == [shown |-> FALSE, base |-> <<>>, style |-> NoStyle, suggestions |-> <<>>]

\* conversationStyle of the active contact: none, or emojiUsage 0.5, 0.6, 0.8
OptionStyles == ContactStyles \cup {NoStyle, [formalityLevel |-> 9, emojiUsage |-> 8]}

OptionsInit == options = NoOptions

\* ChatsyContentScript.showSuggestions(aiResponse, originalMessage)
ShowSuggestionOptions(aiResponse, randomIndex, style) ==
  /\ options' = [shown |-> TRUE, base |-> aiResponse, style |-> style,
                 suggestions |-> generateSuggestionOptions(aiResponse, randomIndex, style)]
  /\ UNCHANGED <<feedVars, apiVars, pageVars, privacyVars, workerVars, extraVars>>

(***************************************************************************)
(* PlatformDetector (utils/platform-detector.js).                          *)
(***************************************************************************)
NoPlatform == "null"

supportedPlatforms == {"whatsapp", "instagram", "telegram"}

\* An adapter is known by its platform tag; NoAdapter stands for null.
NoAdapter == [platform |-> NoPlatform]

WhatsAppAdapter == [platform |-> "whatsapp"]

InstagramAdapter == [platform |-> "instagram"]

TelegramAdapter == [platform |-> "telegram"]

H_web_whatsapp_com == <<"w", "e", "b", ".", "w", "h", "a", "t", "s", "a", "p", "p", ".", "c", "o", "m">>

H_whatsapp_com == <<"w", "h", "a", "t", "s", "a", "p", "p", ".", "c", "o", "m">>

H_instagram_com == <<"i", "n", "s", "t", "a", "g", "r", "a", "m", ".", "c", "o", "m">>

H_www_instagram_com == <<"w", "w", "w", ".", "i", "n", "s", "t", "a", "g", "r", "a", "m", ".", "c", "o", "m">>

H_web_telegram_org == <<"w", "e", "b", ".", "t", "e", "l", "e", "g", "r", "a", "m", ".", "o", "r", "g">>

H_telegram_org == <<"t", "e", "l", "e", "g", "r", "a", "m", ".", "o", "r", "g">>

P_direct == <<"/", "d", "i", "r", "e", "c", "t", "/">>

P_messages == <<"/", "m", "e", "s", "s", "a", "g", "e", "s", "/">>

\* window.location.hostname and window.location.pathname of the pages visited.
Hostnames ==
  {H_web_whatsapp_com, H_www_instagram_com, H_web_telegram_org,
   <<"e", "x", "a", "m", "p", "l", "e", ".", "c", "o", "m">>,
   <<"w", "h", "a", "t", "s", "a", "p", "p", ".", "c", "o", "m", ".", "t", "e", "l", "e", "g", "r", "a", "m", ".", "o", "r", "g">>}

Pathnames == {<<"/">>, <<"/", "d", "i", "r", "e", "c", "t", "/", "i", "n", "b", "o", "x", "/">>}

\* The selectors the detector queries that match an element of the document.
MarkerSets ==
  {{}, {".chat-list"}, {"[data-testid=direct-message]"}, {".message"},
   {"[contenteditable=true]"},
   {"[contenteditable=true]", ".message-in"},
   {"textarea[placeholder*=Message]", "[data-testid=direct-message]"},
   {"[contenteditable=true]", ".message"}}

Sites == [hostname : Hostnames, pathname : Pathnames, markers : MarkerSets]

BlankSite == [hostname |-> <<"e", "x", "a", "m", "p", "l", "e", ".", "c", "o", "m">>, pathname |-> <<"/">>, markers |-> {}]

isWhatsAppHost(s) == includes(s.hostname, H_web_whatsapp_com) \/ includes(s.hostname, H_whatsapp_com)

isInstagramHost(s) ==
  /\ includes(s.hostname, H_instagram_com) \/ includes(s.hostname, H_www_instagram_com)
  /\ includes(s.pathname, P_direct) \/ includes(s.pathname, P_messages)

isTelegramHost(s) == includes(s.hostname, H_web_telegram_org) \/ includes(s.hostname, H_telegram_org)

\* indicators.some(selector => document.querySelector(selector))
some(selectors, markers) == \E selector \in selectors : selector \in markers

hasWhatsAppIndicators(markers) ==
  some({"[data-testid=chat-list]", "[data-testid=conversation-title]", ".chat-list",
        ".conversation-list", "div[data-testid*=chat]"}, markers)

hasInstagramIndicators(markers) ==
  some({"[data-testid=direct-message]", ".direct-message", ".ig-dm", "div[data-testid*=dm]",
        "div[data-testid*=message]"}, markers)

hasTelegramIndicators(markers) ==
  some({".chat-list", ".message-list", ".chat-item", ".message", "div[data-peer-id]"}, markers)

detectFromContent(markers) ==
  IF hasWhatsAppIndicators(markers) THEN "whatsapp"
  ELSE IF hasInstagramIndicators(markers) THEN "instagram"
  ELSE IF hasTelegramIndicators(markers) THEN "telegram"
  ELSE NoPlatform

createAdapter_AlwaysWhatsApp(platform) == WhatsAppAdapter

createAdapter(platform) ==
  CASE platform = "whatsapp" -> WhatsAppAdapter
    [] platform = "instagram" -> InstagramAdapter
    [] platform = "telegram" -> TelegramAdapter
    [] OTHER -> NoAdapter

\* detectPlatform(): the currentPlatform and platformAdapter it leaves behind.
detectPlatform(s) ==
  IF isWhatsAppHost(s)
    THEN [currentPlatform |-> "whatsapp", platformAdapter |-> WhatsAppAdapter]
  ELSE IF isInstagramHost(s)
    THEN [currentPlatform |-> "instagram", platformAdapter |-> InstagramAdapter]
  ELSE IF isTelegramHost(s)
    THEN [currentPlatform |-> "telegram", platformAdapter |-> TelegramAdapter]
  ELSE LET detectedPlatform == detectFromContent(s.markers)
       IN IF detectedPlatform # NoPlatform
            THEN [currentPlatform |-> detectedPlatform,
                  platformAdapter |-> createAdapter(detectedPlatform)]
            ELSE [currentPlatform |-> "unknown", platformAdapter |-> NoAdapter]

NoConfig == [messageSelectors |-> {}, inputSelectors |-> {}]

getPlatformConfig(platform) ==
  CASE platform = "whatsapp" ->
         [messageSelectors |-> {"[data-testid=msg-meta]", ".message-in", ".message-out"},
          inputSelectors |-> {"[contenteditable=true][data-testid=conversation-compose-box-input]",
                              "[contenteditable=true]"}]
    [] platform = "instagram" ->
         [messageSelectors |-> {"[data-testid=direct-message]", ".direct-message"},
          inputSelectors |-> {"textarea[placeholder*=Message]", "textarea[aria-label*=Message]"}]
    [] platform = "telegram" ->
         [messageSelectors |-> {".message", ".message-text"},
          inputSelectors |-> {".input-message-input", "[contenteditable=true]"}]
    [] OTHER -> NoConfig

isPlatformReady_InputOnly(det, markers) ==
  IF det.currentPlatform = NoPlatform \/ det.platformAdapter = NoAdapter
    THEN FALSE
    ELSE LET config == getPlatformConfig(det.currentPlatform)
         IN IF config = NoConfig
              THEN FALSE
              ELSE some(config.inputSelectors, markers)

isPlatformReady(det, markers) ==
  IF det.currentPlatform = NoPlatform \/ det.platformAdapter = NoAdapter
    THEN FALSE
    ELSE LET config == getPlatformConfig(det.currentPlatform)
         IN IF config = NoConfig
              THEN FALSE
              ELSE LET hasInput == some(config.inputSelectors, markers)
                       hasMessages == some(config.messageSelectors, markers)
                   IN hasInput /\ hasMessages

\* The promise of waitForPlatformReady: its state, the timeout it was called
\* with, Date.now() - startTime, whether a checkReady timer is pending, how often
\* it settled and whether the check that resolved it saw the platform ready.
DefaultTimeoutMs == 10000

PollIntervalMs == 100

ShortTimeoutMs == 300

LatePollMs == 10000

Timeouts == {0, ShortTimeoutMs, DefaultTimeoutMs}

\* A timer set for 100 ms fires after 100 ms, or later when the page is busy.
PollDelays == {PollIntervalMs, LatePollMs}

NoWait == [pc |-> "idle", timeout |-> 0, elapsed |-> 0, timer |-> FALSE, settles |-> 0,
           observed |-> FALSE]

checkReady(w, ready) ==
  IF ready
    THEN [w EXCEPT !.pc = "resolved", !.timer = FALSE, !.settles = @ + 1, !.observed = TRUE]
  ELSE IF w.elapsed > w.timeout
    THEN [w EXCEPT !.pc = "rejected", !.timer = FALSE, !.settles = @ + 1]
  ELSE [w EXCEPT !.timer = TRUE]

PlatformInit ==
  /\ site = BlankSite
  /\ detector = [currentPlatform |-> NoPlatform, platformAdapter |-> NoAdapter]
  /\ wait = NoWait
  /\ platformAdapter = NoAdapter

\* The tab shows another page, or the document gains or loses elements.
OpenSite(s) ==
  /\ s # site
  /\ site' = s
  /\ UNCHANGED <<lateVars, detector, wait, platformAdapter, emitterVars, settingVars, cleanupVars, feedVars, apiVars, pageVars,
                 privacyVars, workerVars, optionVars>>

\* detectPlatform()
DetectPlatform ==
  /\ detector' = detectPlatform(site)
  /\ UNCHANGED <<lateVars, site, wait, platformAdapter, emitterVars, settingVars, cleanupVars, feedVars, apiVars, pageVars,
                 privacyVars, workerVars, optionVars>>

\* redetectPlatform(): clears both fields and detects again.
RedetectPlatform ==
  /\ detector.currentPlatform # NoPlatform
  /\ detector' = detectPlatform(site)
  /\ UNCHANGED <<lateVars, site, wait, platformAdapter, emitterVars, settingVars, cleanupVars, feedVars, apiVars, pageVars,
                 privacyVars, workerVars, optionVars>>

\* waitForPlatformReady(timeout): the executor runs checkReady() at once.
WaitForPlatformReady(timeout) ==
  /\ wait.pc # "pending"
  /\ wait' = checkReady([NoWait EXCEPT !.pc = "pending", !.timeout = timeout],
                        isPlatformReady(detector, site.markers))
  /\ UNCHANGED <<lateVars, site, detector, platformAdapter, emitterVars, settingVars, cleanupVars, feedVars, apiVars, pageVars,
                 privacyVars, workerVars, optionVars>>

\* The timer set by checkReady fires d ms after it was set.
CheckReady(d) ==
  /\ wait.timer
  /\ wait' = checkReady([wait EXCEPT !.elapsed = @ + d, !.timer = FALSE],
                        isPlatformReady(detector, site.markers))
  /\ UNCHANGED <<lateVars, site, detector, platformAdapter, emitterVars, settingVars, cleanupVars, feedVars, apiVars, pageVars,
                 privacyVars, workerVars, optionVars>>

\* ChatsyContentScript.setup(): detects the platform, builds the MessageDetector
\* around the adapter found (its init() copies it) and starts monitoring.
Setup ==
  /\ detector.currentPlatform = NoPlatform
  /\ detector' = detectPlatform(site)
  /\ platformAdapter' = detector'.platformAdapter
  /\ LET st == startMonitoring(DetectorState)
     IN /\ isMonitoring' = st.isMonitoring
        /\ observers' = st.observers
  /\ UNCHANGED <<lateVars, site, wait, emitterVars, settingVars, cleanupVars, apiVars, pageVars, privacyVars, workerVars, optionVars,
                 envVars, messageQueue, lastMessageTime, lastContactId, typingTimeout, timers,
                 csVars, uiVars, histVars>>

\* A mutation adds a node that is a typing indicator: checkForTypingIndicators
\* calls handleTypingDetected with the adapter's detectTyping result when there
\* is an adapter, and then with the detector's own typing data.
CheckForTypingIndicators ==
  /\ isMonitoring
  /\ LET st0 == [typingTimeout |-> typingTimeout, timers |-> timers]
         typingData == [contactId |-> getCurrentContactId,
                        platform |-> detector.currentPlatform, timestamp |-> now]
         st1 == IF platformAdapter # NoAdapter
                  THEN MD_handleTypingDetected(st0, [typingData EXCEPT
                                                       !.platform = platformAdapter.platform])
                  ELSE st0
         st2 == MD_handleTypingDetected(st1, typingData)
     IN /\ typingTimeout' = st2.typingTimeout
        /\ timers' = st2.timers
  /\ UNCHANGED <<auxVars, apiVars, envVars, isMonitoring, observers, messageQueue,
                 lastMessageTime, lastContactId, csVars, uiVars, histVars>>

(***************************************************************************)
(* EventEmitter (utils/event-emitter.js), for one event name.              *)
(***************************************************************************)
MaxListeners == 3

MaxInvocations == 2

\* The callbacks registered in the model: one returns, one throws, one
\* unsubscribes itself while it runs.
Callbacks ==
  {[name |-> "a", kind |-> "returns"], [name |-> "b", kind |-> "throws"],
   [name |-> "c", kind |-> "unsubscribes"]}

\* Array.prototype.indexOf: 0 stands for -1.
indexOf(s, x) == IF \E i \in DOMAIN s : s[i] = x THEN Min({i \in DOMAIN s : s[i] = x}) ELSE 0

\* off(event, callback) on the listener array of the event.
off(events, callback) ==
  LET index == indexOf(events, callback)
  IN IF index > 0 THEN RemoveAt(events, index) ELSE events

\* on(event, callback)
on(events, callback) == Append(events, callback)

\* The callbacks given to once() in the model: one returns, one throws, one
\* emits the event again unless it is already running; and the callback that
\* waitFor gives to once(), which clears the timer and resolves the promise.
OnceCallbacks ==
  {[name |-> "p", kind |-> "returns"], [name |-> "q", kind |-> "throws"],
   [name |-> "r", kind |-> "emits"]}

Resolver == [name |-> "w", kind |-> "resolves"]

OnceNames == {"p", "q", "r", "w"}

\* const onceCallback = (...args) => { callback(...args); this.off(event, onceCallback); }
onceCallback(callback) == [name |-> callback.name, kind |-> "once", callback |-> callback]

\* once(event, callback)
once(events, callback) == on(events, onceCallback(callback))

\* Is the callback already running in the emit in progress
running(r, callback) == \E k \in DOMAIN r.called : r.called[k] = callback.name

\* How often the emit called the callback of that name.
invoked(r, name) == Cardinality({k \in DOMAIN r.called : r.called[k] = name})

\* callbacks.forEach(...) from position i on: every callback is called inside
\* its own try block; r holds the listener array, the names called so far and
\* whether an exception left emit.
RECURSIVE forEach_NoCatch(_, _, _)
forEach_NoCatch(callbacks, i, r) ==
  IF i > Len(callbacks) \/ r.propagated
    THEN r
    ELSE LET callback == callbacks[i]
             called == [r EXCEPT !.called = Append(@, callback.name)]
         IN forEach_NoCatch(callbacks, i + 1,
              CASE callback.kind = "throws" -> [called EXCEPT !.propagated = TRUE]
                [] callback.kind = "unsubscribes" ->
                     [called EXCEPT !.events = off(@, callback)]
                [] OTHER -> called)

RECURSIVE forEach(_, _, _)
forEach(callbacks, i, r) ==
  IF i > Len(callbacks)
    THEN r
    ELSE LET callback == callbacks[i]
             called == [r EXCEPT !.called = Append(@, callback.name)]
         IN forEach(callbacks, i + 1,
              CASE callback.kind = "throws" -> [called EXCEPT !.caught = @ + 1]
                [] callback.kind = "unsubscribes" ->
                     [called EXCEPT !.events = off(@, callback)]
                [] callback.kind = "once" ->
                     \* onceCallback: callback(...args), then this.off(event, onceCallback)
                     CASE callback.callback.kind = "throws" -> [called EXCEPT !.caught = @ + 1]
                       [] callback.callback.kind = "emits" /\ ~running(r, callback) ->
                            [forEach(called.events, 1, called) EXCEPT
                               !.events = off(@, callback)]
                       [] OTHER -> [called EXCEPT !.events = off(@, callback)]
                [] OTHER -> called)

\* emit(event, ...args): iterates over a copy of the listener array.
emit(events) ==
  LET start == [events |-> events, called |-> <<>>, caught |-> 0, propagated |-> FALSE]
  IN IF events = <<>> THEN start ELSE forEach(events, 1, start)

NoEmit == [registered |-> <<>>, called |-> <<>>, caught |-> 0, propagated |-> FALSE]

EmitterInit ==
  /\ listeners = <<>>
  /\ lastEmit = NoEmit

NoPromise == [pc |-> "none", timer |-> FALSE]

OnceInit ==
  /\ invocations = [name \in OnceNames |-> 0]
  /\ promise = NoPromise

\* on(event, callback)
On(callback) ==
  /\ Len(listeners) < MaxListeners
  /\ listeners' = on(listeners, callback)
  /\ UNCHANGED <<lateVars, lastEmit, platformVars, settingVars, cleanupVars, feedVars, apiVars, pageVars, privacyVars, workerVars,
                 optionVars>>

\* off(event, callback)
Off(callback) ==
  /\ indexOf(listeners, callback) > 0
  /\ listeners' = off(listeners, callback)
  /\ UNCHANGED <<lateVars, lastEmit, platformVars, settingVars, cleanupVars, feedVars, apiVars, pageVars, privacyVars, workerVars,
                 optionVars>>

\* emit(event, data)
Emit ==
  /\ LET r == emit(listeners)
     IN /\ \A name \in OnceNames : invocations[name] + invoked(r, name) <= MaxInvocations
        /\ listeners' = r.events
        /\ lastEmit' = [registered |-> listeners, called |-> r.called, caught |-> r.caught,
                        propagated |-> r.propagated]
        /\ invocations' = [name \in OnceNames |-> invocations[name] + invoked(r, name)]
        /\ promise' = IF promise.pc = "pending" /\ invoked(r, Resolver.name) > 0
                        THEN [pc |-> "resolved", timer |-> FALSE]
                        ELSE promise
  /\ UNCHANGED <<timeVars, storeOpVars, popupVars, serviceVars, platformVars, settingVars,
                 cleanupVars, feedVars, apiVars, pageVars, privacyVars, workerVars, optionVars>>

\* once(event, callback) with a callback not given to once() before
Once(callback) ==
  /\ Len(listeners) < MaxListeners
  /\ invocations[callback.name] = 0
  /\ indexOf(listeners, onceCallback(callback)) = 0
  /\ listeners' = once(listeners, callback)
  /\ UNCHANGED <<lastEmit, onceVars, timeVars, storeOpVars, popupVars, serviceVars, platformVars,
                 settingVars, cleanupVars, feedVars, apiVars, pageVars, privacyVars, workerVars,
                 optionVars>>

\* waitFor(event, timeout): sets the timer and gives the resolving callback to once().
WaitFor ==
  /\ promise.pc # "pending"
  /\ Len(listeners) < MaxListeners
  /\ listeners' = once(listeners, Resolver)
  /\ promise' = [pc |-> "pending", timer |-> TRUE]
  /\ UNCHANGED <<lastEmit, invocations, timeVars, storeOpVars, popupVars, serviceVars,
                 platformVars, settingVars, cleanupVars, feedVars, apiVars, pageVars, privacyVars,
                 workerVars, optionVars>>

\* The timer of waitFor fires: reject(new Error(...)).
WaitForTimeout ==
  /\ promise.timer
  /\ promise' = [pc |-> "rejected", timer |-> FALSE]
  /\ UNCHANGED <<lastEmit, listeners, invocations, timeVars, storeOpVars, popupVars, serviceVars,
                 platformVars, settingVars, cleanupVars, feedVars, apiVars, pageVars, privacyVars,
                 workerVars, optionVars>>

(***************************************************************************)
(* Settings pushed by the popup (UPDATE_SETTINGS).                         *)
(***************************************************************************)
\* A property that was never assigned is undefined.
Unset == [set |-> FALSE, value |-> FALSE]

SettingsInit == configured = [enabled |-> Unset, overlayEnabled |-> Unset]

\* Object.assign(this, settings) for settings = { enabled }: the fields of the
\* content script afterwards.
assignSettings(cs, enabled) == [cs EXCEPT !.enabled = [set |-> TRUE, value |-> enabled]]

\* ChatsyContentScript.updateSettings(settings) on an UPDATE_SETTINGS push of
\* ChatsyPopup.toggleSuggestions, and UIOverlay.updateSettings(settings).
UpdateSettings(enabled) ==
  /\ LET cs == assignSettings([isEnabled |-> isEnabled, enabled |-> configured.enabled], enabled)
     IN /\ isEnabled' = cs.isEnabled
        /\ configured' = [enabled |-> cs.enabled,
                          overlayEnabled |-> [set |-> TRUE, value |-> enabled]]
  /\ UNCHANGED <<lateVars, platformVars, emitterVars, cleanupVars, apiVars, pageVars, privacyVars, workerVars, optionVars,
                 envVars, detVars, currentContact, conversationContext, pending, inflight,
                 uiVars, histVars>>

(***************************************************************************)
(* Service worker: the daily cleanup of the stored conversations.          *)
(***************************************************************************)
RetentionDays == 30

MaxDays == 46

\* The days the worker lets pass between two events.
IdleDays == {15, 16}

\* a > b on two values of Date.now()
After(a, b) == a.day > b.day \/ (a.day = b.day /\ a.ms > b.ms)

\* result.conversationData.filter(conv => conv.timestamp > thirtyDaysAgo)
filter(conversationData, thirtyDaysAgo) ==
  SelectSeq(conversationData, LAMBDA conv : After(conv.timestamp, thirtyDaysAgo))

NoCleanup == [pc |-> "idle", thirtyDaysAgo |-> Stamp(0, 0), result |-> Absent]

CleanupInit ==
  /\ today = 0
  /\ cleanup = NoCleanup

\* Days pass.
Sleep(d) ==
  /\ today + d <= MaxDays
  /\ today' = today + d
  /\ UNCHANGED <<lateVars, cleanup, platformVars, emitterVars, settingVars, feedVars, apiVars, pageVars,
                 privacyVars, workerVars, optionVars>>

\* cleanupOldData(): computes thirtyDaysAgo and issues the storage read.
CleanupOldData ==
  /\ cleanup.pc = "idle"
  /\ cleanup' = [cleanup EXCEPT !.pc = "get",
                                !.thirtyDaysAgo = Stamp(today - RetentionDays, now)]
  /\ UNCHANGED <<lateVars, today, platformVars, emitterVars, settingVars, feedVars, apiVars, pageVars,
                 privacyVars, workerVars, optionVars>>

\* chrome.storage.local serves the read.
CleanupRead ==
  /\ cleanup.pc = "get"
  /\ cleanup' = [cleanup EXCEPT !.pc = "callback", !.result = storage.conversationData]
  /\ UNCHANGED <<lateVars, today, platformVars, emitterVars, settingVars, feedVars, apiVars, pageVars,
                 privacyVars, workerVars, optionVars>>

\* The callback of the read filters what was read and writes it.
CleanupCallback ==
  /\ cleanup.pc = "callback"
  /\ storage' = IF cleanup.result.kind = "list"
                  THEN [storage EXCEPT
                          !.conversationData =
                             PlainList(filter(cleanup.result.entries, cleanup.thirtyDaysAgo))]
                  ELSE storage
  /\ cleanup' = [cleanup EXCEPT !.pc = "idle", !.result = Absent]
  /\ UNCHANGED <<lateVars, today, platformVars, emitterVars, settingVars, feedVars, apiVars, pageVars,
                 privacyVars, requestVars, scrubVars, keyVars, vaultVars, optionVars>>

(***************************************************************************)
(* The adapters' time parsers.  A Date is the number of milliseconds on    *)
(* the local time line; the clock is what new Date() returns.              *)
(***************************************************************************)
MsPerMinute == 60 * 1000

MsPerHour == 60 * MsPerMinute

MsPerDay == 24 * MsPerHour

\* new Date(now.getFullYear(), now.getMonth(), now.getDate(), hours, minutes):
\* hours and minutes past the end of the day roll over into the following days.
dateOf(clock, hours, minutes) ==
  (clock - (clock % MsPerDay)) + hours * MsPerHour + minutes * MsPerMinute

NoMatch == [found |-> FALSE, hours |-> <<>>, minutes |-> <<>>, period |-> "undefined"]

\* (\d{1,2}):(\d{2}) at index i with an hour group of n digits
clockAt(s, i, n) ==
  /\ \A k \in i..(i + n - 1) : InClass(s, k, Digits)
  /\ InClass(s, i + n, {":"})
  /\ InClass(s, i + n + 1, Digits)
  /\ InClass(s, i + n + 2, Digits)

\* timeText.match(/(\d{1,2}):(\d{2})\s*(AM|PM)?/i): the leftmost match, the hour
\* group taking two digits when it can.
matchClock(s) ==
  LET starts == {i \in 1..Len(s) : clockAt(s, i, 2) \/ clockAt(s, i, 1)}
  IN  IF starts = {}
        THEN NoMatch
        ELSE LET i == Min(starts)
                 n == IF clockAt(s, i, 2) THEN 2 ELSE 1
                 p == RunEnd(s, i + n + 3, SpaceChars) + 1
             IN  [found |-> TRUE,
                  hours |-> SubSeq(s, i, i + n - 1),
                  minutes |-> SubSeq(s, i + n + 1, i + n + 2),
                  period |-> IF StartsWithCI(s, p, <<"a", "m">>) THEN "AM"
                             ELSE IF StartsWithCI(s, p, <<"p", "m">>) THEN "PM"
                             ELSE "undefined"]

\* timeText.match(/(\d+)\s*min/) and timeText.match(/(\d+)\s*h/): the digits of
\* the leftmost match, <<>> when there is none.
matchAmount(s, unit) ==
  LET starts == {i \in 1..Len(s) :
                   /\ InClass(s, i, Digits)
                   /\ StartsWith(s, RunEnd(s, RunEnd(s, i, Digits) + 1, SpaceChars) + 1, unit)}
  IN  IF starts = {} THEN <<>>
      ELSE SubSeq(s, Min(starts), RunEnd(s, Min(starts), Digits))

NoDate == [isNull |-> TRUE, time |-> 0]

DateAt(t) == [isNull |-> FALSE, time |-> t]

\* The absolute branch shared by the parsers: 24-hour conversion, a Date of
\* today, and one day back when it is after the clock.
parseClockTime(timeText, clock) ==
  LET timeMatch == matchClock(timeText)
      parsed == numberOf(timeMatch.hours)
      hours == IF timeMatch.period = "PM" /\ parsed < 12 THEN parsed + 12
               ELSE IF timeMatch.period = "AM" /\ parsed = 12 THEN 0
               ELSE parsed
      date == dateOf(clock, hours, numberOf(timeMatch.minutes))
  IN  IF ~timeMatch.found THEN NoDate
      ELSE IF date > clock THEN DateAt(date - MsPerDay)
      ELSE DateAt(date)

\* WhatsAppAdapter.parseWhatsAppTime
parseWhatsAppTime(timeText, clock) ==
  IF timeText = <<>> THEN NoDate ELSE parseClockTime(timeText, clock)

\* InstagramAdapter.parseInstagramTime
parseInstagramTime(timeText, clock) ==
  LET minutes == matchAmount(timeText, <<"m", "i", "n">>)
      hours == matchAmount(timeText, <<"h">>)
  IN  IF timeText = <<>> THEN NoDate
      ELSE IF includes(timeText, <<"n", "o", "w">>) THEN DateAt(clock)
      ELSE IF includes(timeText, <<"m", "i", "n">>) /\ minutes # <<>>
        THEN DateAt(clock - numberOf(minutes) * MsPerMinute)
      ELSE IF includes(timeText, <<"h">>) /\ hours # <<>>
        THEN DateAt(clock - numberOf(hours) * MsPerHour)
      ELSE parseClockTime(timeText, clock)

TimeParsers == {"whatsapp", "instagram"}

parseTime(parser, timeText, clock) ==
  IF parser = "whatsapp" THEN parseWhatsAppTime(timeText, clock)
                         ELSE parseInstagramTime(timeText, clock)

\* The hour, minute and period parts of the time texts.
HourTexts ==
  {<<"0">>, <<"9">>, <<"1", "2">>, <<"2", "3">>, <<"2", "4">>, <<"4", "8">>}

MinuteTexts == {<<"0", "0">>, <<"3", "0">>}

PeriodTexts == {<<>>, <<" ", "A", "M">>, <<"p", "m">>}

ClockTexts ==
  {h \o <<":">> \o m \o p : h \in HourTexts, m \in MinuteTexts, p \in PeriodTexts}

MinuteAgoTexts == {<<"5", " ", "m", "i", "n">>, <<"4", "5", "m", "i", "n">>}

HourAgoTexts == {<<"2", "h">>, <<"1", "2", " ", "h">>}

TimeTexts ==
  ClockTexts \cup MinuteAgoTexts \cup HourAgoTexts
    \cup {<<>>, <<"j", "u", "s", "t", " ", "n", "o", "w">>, <<"T", "u", "e", "s", "d", "a", "y">>}

\* Clock readings: the second day of the time line at 00:10:00.000, 00:30:00.500,
\* 12:00:00.000, 13:45:00.000 and 23:59:59.999.
Clocks ==
  {MsPerDay + t : t \in {10 * MsPerMinute, 30 * MsPerMinute + 500, 12 * MsPerHour,
                         13 * MsPerHour + 45 * MsPerMinute, MsPerDay - 1}}

NoParse == [parser |-> "none", timeText |-> <<>>, clock |-> 0, result |-> NoDate]

TimeInit == parsedTime = NoParse

\* extractMessageData calls the adapter's time parser on the text of a time element.
ParseTime(parser, timeText, clock) ==
  /\ parsedTime' = [parser |-> parser, timeText |-> timeText, clock |-> clock,
                    result |-> parseTime(parser, timeText, clock)]
  /\ UNCHANGED <<feedVars, apiVars, pageVars, privacyVars, workerVars, optionVars,
                 platformVars, emitterVars, settingVars, cleanupVars, storeOpVars, popupVars, serviceVars, onceVars>>

(***************************************************************************)
(* GET_AI_RESPONSE requests answered side by side: every call of           *)
(* storeConversationData reads conversationData, and its callback appends  *)
(* to what was read and writes the result.  chrome.storage.local serves    *)
(* the reads and runs the callbacks in the order the reads were issued.    *)
(***************************************************************************)
MaxAnswered == 3

NoStores == [pending |-> <<>>, answered |-> <<>>]

StoresInit == stores = NoStores

\* storeConversationData(contactId, platform, message, response) up to the
\* storage read it issues.
storeConversationData(contactId, platform, message, response) ==
  [pc |-> "get",
   conversationData |-> [contactId |-> contactId, platform |-> platform, message |-> message,
                         response |-> response, timestamp |-> dateNow, success |-> TRUE],
   result |-> Absent]

\* The callback of the read: push, splice to the last 1000, set.
storeCallback(call_) ==
  LET conversations == IF call_.result.kind = "list" THEN call_.result.entries ELSE <<>>
  IN  PlainList(LastN(Append(conversations, call_.conversationData), ConversationCapacity))

\* handleAIRequest once generateResponse has returned: storeConversationData
\* issues its read and returns, and the response is sent with success.
AnswerAIRequest(contactId, message, response) ==
  /\ Len(stores.answered) < MaxAnswered
  /\ LET call_ == storeConversationData(contactId, Platform, message, response)
     IN stores' = [pending |-> Append(stores.pending, call_),
                   answered |-> Append(stores.answered, call_.conversationData)]
  /\ UNCHANGED <<feedVars, apiVars, pageVars, privacyVars, workerVars, optionVars,
                 platformVars, emitterVars, settingVars, cleanupVars, timeVars, popupVars, serviceVars, onceVars>>

\* chrome.storage.local serves the oldest read not yet served.
ConversationRead ==
  \E k \in DOMAIN stores.pending :
    /\ stores.pending[k].pc = "get"
    /\ \A j \in 1..(k - 1) : stores.pending[j].pc # "get"
    /\ stores' = [stores EXCEPT !.pending[k].pc = "callback",
                                !.pending[k].result = storage.conversationData]
    /\ UNCHANGED <<feedVars, apiVars, pageVars, privacyVars, workerVars, optionVars,
                   platformVars, emitterVars, settingVars, cleanupVars, timeVars, popupVars, serviceVars, onceVars>>

\* The callback of the oldest read runs.
ConversationCallback ==
  /\ stores.pending # <<>>
  /\ stores.pending[1].pc = "callback"
  /\ storage' = [storage EXCEPT !.conversationData = storeCallback(stores.pending[1])]
  /\ stores' = [stores EXCEPT !.pending = Tail(@)]
  /\ UNCHANGED <<feedVars, apiVars, pageVars, privacyVars, requestVars, scrubVars, keyVars,
                 vaultVars, optionVars, platformVars, emitterVars, settingVars, cleanupVars,
                 timeVars, popupVars, serviceVars, onceVars>>

(***************************************************************************)
(* The popup saves an API key: saveApiKey writes the key set to storage    *)
(* and sends UPDATE_API_KEYS to the service worker, whose onMessage        *)
(* listener dispatches on the message type.                                *)
(***************************************************************************)
NoKeys == [huggingface |-> FALSE, gemini |-> FALSE]

PopupInit == popup = [apiKeys |-> NoKeys, message |-> "none", reply |-> "none", saved |-> {}]

\* The message types the listener of the service worker has a case for.
handledTypes == {"GET_AI_RESPONSE", "UPDATE_SETTINGS", "GET_STATS", "CLEAR_DATA"}

\* result.apiKeys || {} read from storage: is there a key for the provider
storedKey(provider) ==
  storage.apiKeys.kind = "object" /\ storage.apiKeys.fields[provider] # <<>>

\* ChatsyPopup.saveApiKey(provider) with a non-empty input: the key goes into
\* this.apiKeys, the key set is written to storage, the message is sent.
SaveApiKey(provider) ==
  /\ popup.message = "none"
  /\ LET keys == [popup.apiKeys EXCEPT ![provider] = TRUE]
     IN /\ popup' = [apiKeys |-> keys, message |-> "UPDATE_API_KEYS", reply |-> "none",
                     saved |-> popup.saved \cup {provider}]
        /\ storage' = [storage EXCEPT
                         !.apiKeys =
                            PlainObject([huggingface |-> IF keys.huggingface THEN T_hfKey ELSE <<>>,
                                         gemini |-> IF keys.gemini THEN T_geminiKey ELSE <<>>])]
  /\ UNCHANGED <<feedVars, apiVars, pageVars, privacyVars, requestVars, scrubVars, keyVars,
                 vaultVars, optionVars, platformVars, emitterVars, settingVars, cleanupVars,
                 timeVars, storeOpVars, serviceVars, onceVars>>

\* The onMessage listener of the service worker receives the popup's message:
\* a type without a case gets { success: false, error: 'Unknown message type' }.
OnMessage ==
  /\ popup.message # "none"
  /\ popup.message \notin handledTypes
  /\ popup' = [popup EXCEPT !.message = "none", !.reply = "Unknown message type"]
  /\ UNCHANGED <<feedVars, apiVars, pageVars, privacyVars, workerVars, optionVars,
                 platformVars, emitterVars, settingVars, cleanupVars, timeVars, storeOpVars, serviceVars, onceVars>>

\* The storage read of initializeAPIKeys resolves with what storage holds.
InitializeAPIKeysFromStorage ==
  InitializeAPIKeys(storedKey("huggingface"), storedKey("gemini"))

(***************************************************************************)
(* ChatsyApp (desktop renderer): the service and its monitoring interval.  *)
(* Every setInterval call returns a new id; the interval stays active      *)
(* until clearInterval is called with that id.                             *)
(***************************************************************************)
MaxIntervals == 4

MaxDashboardVisits == 2

ServiceInit ==
  service = [pc |-> "constructed", serviceStatus |-> "stopped", monitoringInterval |-> NoTimer,
             intervals |-> {}, created |-> 0, listeners |-> 0]

\* initBackgroundMonitoring(): this.monitoringInterval = setInterval(...)
initBackgroundMonitoring(sv) ==
  [sv EXCEPT !.created = @ + 1,
             !.intervals = @ \cup {sv.created + 1},
             !.monitoringInterval = sv.created + 1]

\* stopBackgroundMonitoring(): clearInterval(this.monitoringInterval) when set
stopBackgroundMonitoring(sv) ==
  IF sv.monitoringInterval # NoTimer
    THEN [sv EXCEPT !.intervals = @ \ {sv.monitoringInterval}, !.monitoringInterval = NoTimer]
    ELSE sv

\* startService(): 'starting', initBackgroundMonitoring, 'running'
startService(sv) == [initBackgroundMonitoring(sv) EXCEPT !.serviceStatus = "running"]

\* stopService(): 'stopping', stopBackgroundMonitoring, 'stopped'
stopService(sv) == [stopBackgroundMonitoring(sv) EXCEPT !.serviceStatus = "stopped"]

\* A click on a button runs every click listener registered on it.
RECURSIVE startClicks(_, _)
startClicks(sv, n) == IF n = 0 THEN sv ELSE startClicks(startService(sv), n - 1)

RECURSIVE stopClicks(_, _)
stopClicks(sv, n) == IF n = 0 THEN sv ELSE stopClicks(stopService(sv), n - 1)

\* initService(): 'configure' without API keys, else 'ready' and startService()
InitService(hasApiKeys) ==
  /\ service.pc = "constructed"
  /\ service' = IF hasApiKeys
                  THEN startService([service EXCEPT !.pc = "initialized"])
                  ELSE [service EXCEPT !.pc = "initialized", !.serviceStatus = "configure"]
  /\ UNCHANGED <<feedVars, apiVars, pageVars, privacyVars, workerVars, optionVars,
                 platformVars, emitterVars, settingVars, cleanupVars, timeVars, storeOpVars,
                 popupVars, onceVars>>

\* switchView('dashboard'): initDashboard calls initDashboardActions, which adds
\* a click listener to each button.
SwitchToDashboard ==
  /\ service.pc = "initialized"
  /\ service.listeners < MaxDashboardVisits
  /\ service' = [service EXCEPT !.listeners = @ + 1]
  /\ UNCHANGED <<feedVars, apiVars, pageVars, privacyVars, workerVars, optionVars,
                 platformVars, emitterVars, settingVars, cleanupVars, timeVars, storeOpVars,
                 popupVars, onceVars>>

\* A click on startServiceBtn.
ClickStartService ==
  /\ service.listeners > 0
  /\ service.created + service.listeners <= MaxIntervals
  /\ service' = startClicks(service, service.listeners)
  /\ UNCHANGED <<feedVars, apiVars, pageVars, privacyVars, workerVars, optionVars,
                 platformVars, emitterVars, settingVars, cleanupVars, timeVars, storeOpVars,
                 popupVars, onceVars>>

\* A click on stopServiceBtn.
ClickStopService ==
  /\ service.listeners > 0
  /\ service' = stopClicks(service, service.listeners)
  /\ UNCHANGED <<feedVars, apiVars, pageVars, privacyVars, workerVars, optionVars,
                 platformVars, emitterVars, settingVars, cleanupVars, timeVars, storeOpVars,
                 popupVars, onceVars>>

(***************************************************************************)
(* Specifications.                                                         *)
(***************************************************************************)
vars == <<feedVars, apiVars, auxVars>>

Init ==
  /\ FeedInit /\ APIInit /\ PageInit /\ PrivacyInit /\ WorkerInit /\ OptionsInit
  /\ PlatformInit /\ EmitterInit /\ SettingsInit /\ CleanupInit
  /\ TimeInit /\ StoresInit /\ PopupInit /\ ServiceInit /\ OnceInit

\* The handlers of the content script that are suspended may resume in any order.
ResumeHandler ==
  \/ \E i \in DOMAIN pending : ResumeMessageReceived(i)
  \/ \E i \in DOMAIN pending : ResumeContactChanged(i)

\* The feed observer's message path, with every node timestamp.
NextDedup ==
  \/ \E c \in Contacts : Navigate(c)
  \/ StartMonitoring
  \/ \E text \in Texts, nodeTime \in NodeTimes :
       DetectMessage(text, nodeTime, MaxMessages, MaxPending)
  \/ ResumeHandler

SpecDedup == Init /\ [][NextDedup]_vars

\* The feed observer's typing path.
NextTyping ==
  \/ \E d \in TickSteps : Tick(d)
  \/ \E c \in Contacts \cup {NoContact} : Navigate(c)
  \/ StartMonitoring
  \/ StopMonitoring
  \/ \E calls \in {1, 2} : DetectTyping(calls, MaxInflight)
  \/ TypingTimerFires

SpecTyping == Init /\ [][NextTyping]_vars

\* The whole feed: detection, the content script's handlers, requests and the overlay.
Next ==
  \/ Tick(TypingDelayMs)
  \/ \E c \in Contacts : Navigate(c)
  \/ StartMonitoring
  \/ DetectMessage("hi", NoTime, MaxMessages, MaxPending)
  \/ DetectTyping(1, MaxInflight)
  \/ TypingTimerFires
  \/ ResumeHandler
  \/ \E i \in DOMAIN inflight, success \in BOOLEAN, r \in Responses :
       DeliverResponse(i, success, r)
  \/ ToggleSuggestions
  \/ FadeOutFires

Spec == Init /\ [][Next]_vars

\* The whole feed when the suspended handlers resume in the order they started.
NextFifo ==
  \/ Tick(TypingDelayMs)
  \/ \E c \in Contacts : Navigate(c)
  \/ StartMonitoring
  \/ DetectMessage("hi", NoTime, MaxMessages, MaxPending)
  \/ DetectTyping(1, MaxInflight)
  \/ TypingTimerFires
  \/ ResumeMessageReceived(1)
  \/ ResumeContactChanged(1)
  \/ \E i \in DOMAIN inflight, success \in BOOLEAN, r \in Responses :
       DeliverResponse(i, success, r)
  \/ ToggleSuggestions
  \/ FadeOutFires

SpecFifo == Init /\ [][NextFifo]_vars

\* The suggestion trigger: one conversation's messages, typing signals from any
\* conversation, the enable switch and the responses.
NextSuggest ==
  \/ Tick(TypingDelayMs)
  \/ \E c \in Contacts \cup {NoContact} : Navigate(c)
  \/ StartMonitoring
  \/ DetectMessage("hi", NoTime, MaxSuggestMessages, MaxSuggestPending)
  \/ DetectTyping(1, MaxSuggestInflight)
  \/ TypingTimerFires
  \/ ResumeHandler
  \/ \E i \in DOMAIN inflight, success \in BOOLEAN, r \in Responses :
       DeliverResponse(i, success, r)
  \/ ToggleSuggestions
  \/ FadeOutFires

SpecSuggest == Init /\ [][NextSuggest]_vars

\* The context window under a long run of messages of the open conversation: the
\* k-th message node carries the time k seconds.
NextWindow ==
  \/ StartMonitoring
  \/ DetectMessage("hi", RunNodeTime(Len(detectedMessages) + 1), MaxWindowMessages,
                   MaxWindowPending)
  \/ ResumeHandler

SpecWindow == Init /\ [][NextWindow]_vars

\* The provider chain of the service worker.
NextAPI ==
  \/ \E hf \in BOOLEAN, gm \in BOOLEAN : InitializeAPIKeys(hf, gm)
  \/ \E message \in APIRequests : GenerateResponse(message)
  \/ \E outcome \in FetchOutcomes(HFShapes) : HuggingFaceSettles(outcome)
  \/ \E outcome \in FetchOutcomes(GeminiShapes) : GeminiSettles(outcome)
  \/ \E d \in WorkerTickSteps : WorkerTick(d)

SpecAPI == Init /\ [][NextAPI]_vars

\* The feed observer started, stopped and toggled while the page changes.
NextMonitor ==
  \/ Tick(TypingDelayMs)
  \/ \E c \in Contacts : Navigate(c)
  \/ StartMonitoring
  \/ StopMonitoring
  \/ ToggleSuggestions
  \/ DetectMessage("hi", NoTime, MaxSuggestMessages, MaxSuggestPending)
  \/ DetectTyping(1, MaxSuggestInflight)
  \/ TypingTimerFires
  \/ ResumeHandler

SpecMonitor == Init /\ [][NextMonitor]_vars

\* The contact id resolution on every page.
NextContactId ==
  \/ \E p \in Pages : OpenPage(p)
  \/ \E viaAdapter \in BOOLEAN : ResolveContactId(viaAdapter)

SpecContactId == Init /\ [][NextContactId]_vars

\* The hash functions called on every input in every mode.
NextHash == \E mode \in HashModes, str \in HashInputs : HashCall(mode, str)

SpecHash == Init /\ [][NextHash]_vars

(***************************************************************************)
(* Properties of the feed observer and the content script.                 *)
(***************************************************************************)
SameMessage(a, b) == a.contactId = b.contactId /\ a.message = b.message

WithinWindow(a, b) == Abs(a.timestamp - b.timestamp) < DuplicateWindowMs

\* C1: of two detected messages with the same contactId and text whose timestamps
\* are less than 5 s apart exactly one is emitted as messageReceived, and a detected
\* message with no such companion is always emitted.
C1_DuplicateSuppression ==
  /\ \A i, j \in DOMAIN emittedMessages :
       (i < j /\ SameMessage(emittedMessages[i], emittedMessages[j]))
         => ~WithinWindow(emittedMessages[i], emittedMessages[j])
  /\ \A i \in DOMAIN detectedMessages :
       (\A j \in DOMAIN detectedMessages :
          (j # i /\ SameMessage(detectedMessages[i], detectedMessages[j]))
            => ~WithinWindow(detectedMessages[i], detectedMessages[j]))
         => \E k \in DOMAIN emittedMessages : emittedMessages[k] = detectedMessages[i]

\* C2: a response whose request was issued for contact Y and that is delivered after
\* a ContactChanged to another contact X was processed is discarded: no suggestion
\* overlay is shown for it.
C2_StaleResponseDiscarded == lastDelivery.stale => ~lastDelivery.shown

\* C7: the conversation context never holds more than 10 entries, and it is
\* exactly the 10 most recent of the entries pushed since it was last reset, in the
\* order they were pushed.
C7_ContextWindowBound ==
  /\ Len(conversationContext) <= ContextCapacity
  /\ conversationContext = LastN(pushed, ContextCapacity)

C7_Witness ==
  /\ Len(pushed) > ContextCapacity
  /\ Len(conversationContext) = ContextCapacity
  /\ conversationContext[1] # pushed[1]

\* C8: once a ContactChanged to X has been processed, and until the next
\* ContactChanged is emitted, currentContact is X and every entry of the
\* conversation context carries contactId X.
C8_SingleActiveContext ==
  activeSince # NoContact =>
    /\ currentContact.contactId = activeSince
    /\ \A i \in DOMAIN conversationContext : conversationContext[i].contactId = activeSince

\* C9: a suggestion request is issued only while handling a typingDetected event
\* whose contactId is that of the active contact, with suggestions enabled; every
\* request in flight was issued for the contact that was active.
C9_RequestOnlyForActiveContact ==
  /\ lastTyping.issued =>
       /\ lastTyping.enabled
       /\ lastTyping.active # NoContact
       /\ lastTyping.contactId = lastTyping.active
  /\ \A i \in DOMAIN inflight : inflight[i].contactId # NoContact

C9_Witness ==
  /\ lastTyping.issued
  /\ lastTyping.contactId = lastTyping.active
  /\ Len(inflight) = 1

EventEmitted ==
  \/ Len(emittedMessages') > Len(emittedMessages)
  \/ Len(pending') > Len(pending)
  \/ typingHist'.emits > typingHist.emits
  \/ typingHist'.emittedAt # typingHist.emittedAt

C11_State ==
  /\ observers <= 1
  /\ isMonitoring <=> observers = 1
  /\ startMonitoring(startMonitoring(DetectorState)) = startMonitoring(DetectorState)
  /\ stopMonitoring(stopMonitoring(DetectorState)) = stopMonitoring(DetectorState)
  /\ ~isMonitoring => timers = {} /\ typingTimeout = NoTimer

\* C11: starting twice leaves one observer, stopping twice is the same as stopping
\* once, and while monitoring is stopped no debounce timer is pending and no step
\* emits messageReceived, typingDetected or contactChanged.
C11_StartStopIdempotent == [](C11_State) /\ [][~isMonitoring => ~EventEmitted]_vars

\* Monitoring was stopped with a debounce timer pending; the timer's due time has
\* passed and nothing was emitted.
C11_Witness ==
  /\ ~isMonitoring
  /\ typingHist.signal # NoSignal
  /\ typingHist.emits = 0
  /\ now >= typingHist.signalAt + TypingDelayMs
  /\ timers = {}

\* C12: a contact id that leaves the adapter or the detector is the hash of the
\* identifying text it was resolved from, whichever step resolved it.
C12_ContactIdHashed ==
  resolved.step # "none" => /\ resolved.id = hashString(resolved.raw)
                            /\ resolved.id # resolved.raw

Deterministic ==
  \A a \in hashSeen, b \in hashSeen : (a[1] = b[1] /\ a[2] = b[2]) => a[3] = b[3]

HexOnly(str) == \A i \in DOMAIN str : \E k \in DOMAIN HexDigits : HexDigits[k] = str[i]

Failed(entry) == ~Truthy(entry.result)

LastTier == call.tiers[Len(call.tiers)]

\* C3: generateResponse never fails for a string message: whatever the providers
\* do (key absent or not loaded, HTTP error, network error, malformed or empty
\* payload) the call returns a non-empty string, and when both providers gave
\* nothing usable it is one of the local matcher's responses for the message.
C3_AlwaysNonEmptyResponse ==
  call.message.isString =>
    /\ call.pc # "rejected"
    /\ call.pc = "returned" =>
         /\ ~call.response.isNull
         /\ Len(call.response.text) > 0
         /\ LastTier.tier = "local" => call.response.text \in generateLocalResponse(call.message)

\* Both providers were called and gave nothing usable; the local matcher answered.
C3_Witness ==
  /\ call.pc = "returned"
  /\ call.message.isString
  /\ Len(call.tiers) = 3
  /\ call.tiers[1].called /\ call.tiers[1].result = Null
  /\ call.tiers[2].called /\ call.tiers[2].result = Str(<<>>)
  /\ call.tiers[3].tier = "local"
  /\ Len(call.response.text) > 0

\* C4: the tiers run in the order HuggingFace, Gemini, local; Gemini is tried only
\* after HuggingFace gave no usable result, the local matcher only after both
\* failed, and the first tier that succeeds supplies the response and ends the call.
C4_TierOrder ==
  LET t == call.tiers
  IN  /\ \A i \in DOMAIN t :
           t[i].tier = "gemini" =>
             \E j \in 1..(i - 1) : t[j].tier = "huggingface" /\ Failed(t[j])
      /\ \A i \in DOMAIN t :
           t[i].tier = "local" =>
             /\ \E j \in 1..(i - 1) : t[j].tier = "huggingface" /\ Failed(t[j])
             /\ \E j \in 1..(i - 1) : t[j].tier = "gemini" /\ Failed(t[j])
      /\ \A i \in DOMAIN t :
           ~Failed(t[i]) => i = Len(t) /\ call.pc = "returned" /\ call.response = t[i].result

\* C5: provider calls go through the rate limiter, so no more than
\* maxRequestsPerMinute of them are issued without a delay between them.
C5_RateLimit == burstFetches <= maxRequestsPerMinute

\* C6: a provider call is abandoned once it has been pending for the request
\* timeout, so no fetch is still awaited after requestTimeoutMs.
C6_RequestTimeout == call.pc \in FetchStates => fetchElapsed <= requestTimeoutMs

(***************************************************************************)
(* The AI request path of the service worker.                              *)
(***************************************************************************)
NextRequest ==
  \/ \E hf, gm \in BOOLEAN : InitializeAPIKeys(hf, gm)
  \/ /\ aiRequest.pc = "idle"
     /\ \E data \in AIRequests, cryptoAvailable \in BOOLEAN : HandleAIRequest(data, cryptoAvailable)
  \/ \E provider \in Providers : ProviderFetch(provider)
  \/ \E response \in {T_response} : SendAIResponse(response)
  \/ StoreConversation

SpecRequest == Init /\ [][NextRequest]_vars

Handed == aiRequest.pc \in {"generateResponse", "fetch"}

\* C14: the payload handed to the provider chain is the output of sanitizeData on
\* the request data: it has none of the fields contactId, phoneNumber, email,
\* fullName, platform; a contact name in the request is replaced by its hash; it
\* carries privacyLevel and a timestamp; and every prompt sent to a provider is
\* built from that payload, so sanitizing precedes every provider call.
C14_SanitizedPayload ==
  Handed =>
    LET data == aiRequest.data
        payload == aiRequest.payload
    IN /\ DOMAIN payload \cap DeniedFields = {}
       /\ (has(data, "contactName") /\ data["contactName"] # <<>>) =>
             /\ has(payload, "contactName")
             /\ payload["contactName"] # data["contactName"]
             /\ \E cryptoAvailable \in BOOLEAN :
                  payload["contactName"] = pmHashString(data["contactName"], cryptoAvailable)
       /\ has(payload, "privacyLevel") /\ payload["privacyLevel"] = T_high
       /\ has(payload, "timestamp") /\ payload["timestamp"] \in 0..now
       /\ \E cryptoAvailable \in BOOLEAN :
            payload = sanitizeData(data, cryptoAvailable, payload["timestamp"])
       /\ aiRequest.pc = "fetch" =>
            aiRequest.prompt = buildPrompt(aiRequest.provider, payload)

C14_Witness ==
  /\ aiRequest.pc = "fetch"
  /\ DeniedFields \subseteq DOMAIN aiRequest.data
  /\ has(aiRequest.data, "contactName")
  /\ aiRequest.data["contactName"] = T_Alice
  /\ aiRequest.payload["contactName"] = hashString(T_Alice)

\* C15: every prompt sent to a provider is built from scrubbed text: both the
\* message and the flattened context summary of the request have had the
\* substitutions of anonymizeMessage applied.
C15_NoUnscrubbedText ==
  aiRequest.pc = "fetch" =>
    aiRequest.prompt =
      buildPrompt(aiRequest.provider,
                  [aiRequest.payload EXCEPT
                     !["message"] = anonymizeMessage(aiRequest.data["message"]),
                     !["context"] = anonymizeMessage(aiRequest.data["context"])])

(***************************************************************************)
(* Scrubbing and detection of PII.                                         *)
(***************************************************************************)
NextScrub == \E body \in ScrubBodies : ScrubMessage(body)

SpecScrub == Init /\ [][NextScrub]_vars

contains(s, word) == \E k \in 1..Len(s) : StartsWith(s, k, word)

\* C16: for a body that holds a phone number or an e-mail address the scrubbed
\* body has [PHONE] / [EMAIL] in their place, containsPII with the phone and
\* e-mail patterns is true on the body and false on the scrubbed body, and
\* scrubbing the scrubbed body changes nothing.
C16_ScrubRemovesDetected ==
  scrub.called =>
    /\ test("phone", scrub.body) =>
          contains(scrub.scrubbed, PHONE) /\ ~test("phone", scrub.scrubbed)
    /\ test("email", scrub.body) =>
          contains(scrub.scrubbed, EMAIL) /\ ~test("email", scrub.scrubbed)
    /\ (test("phone", scrub.body) \/ test("email", scrub.body)) =>
          /\ containsPIIIn(<<"phone", "email">>, scrub.body)
          /\ ~containsPIIIn(<<"phone", "email">>, scrub.scrubbed)
    /\ scrub.again = scrub.scrubbed

(***************************************************************************)
(* Encryption of stored records.                                           *)
(***************************************************************************)
NextCrypt ==
  \/ InitReadsStorage(FALSE)
  \/ InitPersistsKey(FALSE)
  \/ \E record \in VaultRecords, cryptoAvailable \in BOOLEAN, iv \in IVs :
       EncryptData(record, cryptoAvailable, iv)
  \/ \E cryptoAvailable \in BOOLEAN : DecryptData(cryptoAvailable)

SpecCrypt == Init /\ [][NextCrypt]_vars

\* C17: decryptData(encryptData(R)) = R both when crypto and the key are
\* available to the two calls and when both calls run degraded (no crypto, or
\* no key yet); a call that cannot encrypt or decrypt returns its input
\* unchanged instead of raising.
C17_RoundTrip ==
  /\ vault.pc # "empty" =>
        /\ (Degraded(vault.encMode) \/ ~stringify(vault.record).ok) => vault.stored = vault.record
        /\ (~Degraded(vault.encMode) /\ stringify(vault.record).ok) =>
              isArray(vault.stored) /\ vault.stored # vault.record
  /\ vault.pc = "decrypted" =>
        /\ (Degraded(vault.decMode) \/ ~isArray(vault.stored)) => vault.result = vault.stored
        /\ (Degraded(vault.encMode) /\ Degraded(vault.decMode)) => vault.result = vault.record
        /\ (/\ ~Degraded(vault.encMode)
            /\ ~Degraded(vault.decMode)
            /\ vault.encMode.key = vault.decMode.key) => vault.result = vault.record

C17_Witness ==
  /\ vault.pc = "decrypted"
  /\ ~Degraded(vault.encMode) /\ ~Degraded(vault.decMode)
  /\ isArray(vault.record) /\ Len(vault.record.items) > IvLength
  /\ vault.stored # vault.record
  /\ vault.result = vault.record

(***************************************************************************)
(* The life cycle of the encryption key.                                   *)
(***************************************************************************)
NextKey ==
  \/ \E readFails \in BOOLEAN : InitReadsStorage(readFails)
  \/ \E writeFails \in BOOLEAN : InitPersistsKey(writeFails)
  \/ ClearAllData
  \/ HandleDataClear
  \/ Restart
  \/ \E record \in VaultRecords, cryptoAvailable \in BOOLEAN, iv \in IVs :
       EncryptData(record, cryptoAvailable, iv)

SpecKey == Init /\ [][NextKey]_vars

\* C18: a key is generated only when none is persisted, and whenever
\* initializeEncryption has completed the key in memory is the persisted key.
C18_KeyStability ==
  /\ [](keyInit.pc = "done" => encryptionKey = storage.encryptionKey)
  /\ [][keysGenerated' # keysGenerated => storage.encryptionKey = NoKey]_vars

(***************************************************************************)
(* What the service worker writes to chrome.storage.local.                 *)
(***************************************************************************)
NextStore ==
  \/ \E hf, gm \in BOOLEAN : InitializeAPIKeys(hf, gm)
  \/ \E provider \in Providers : UpdateAPIKeys(provider)
  \/ /\ aiRequest.pc = "idle"
     /\ \E data \in AIRequests, cryptoAvailable \in BOOLEAN : HandleAIRequest(data, cryptoAvailable)
  \/ \E provider \in Providers : ProviderFetch(provider)
  \/ \E response \in {T_response} : SendAIResponse(response)
  \/ StoreConversation
  \/ HandleDataClear

SpecStore == Init /\ [][NextStore]_vars

IsEncryptedRecord(value) == value.kind = "array"

SensitiveKeys == {"apiKeys", "conversationData"}

\* C19: every value stored under a sensitive key is an encrypted record, the
\* output of encryptData; no plain message, contactId or API key is stored.
C19_SensitiveKeysEncrypted ==
  \A k \in SensitiveKeys : storage[k] # Absent => IsEncryptedRecord(storage[k])

(***************************************************************************)
(* The suggestion options.                                                 *)
(***************************************************************************)
NextOptions ==
  \E aiResponse \in BaseResponses, randomIndex \in DOMAIN delayPhrases,
     style \in OptionStyles :
    ShowSuggestionOptions(aiResponse, randomIndex, style)

SpecOptions == Init /\ [][NextOptions]_vars

isPrefix(p, s) == Len(p) <= Len(s) /\ SubSeq(s, 1, Len(p)) = p

engagingSuffix ==
  SubSeq(options.suggestions[3].text, Len(options.base) + 1, Len(options.suggestions[3].text))

Emoji == "U+1F60A"

\* C21: the engaging variant is the base text followed by a prompt that ends
\* with a question mark, followed by an emoji exactly when the emoji rate of the
\* active contact is above 0.5; for rate 0.8 and base "Sounds good" it ends with
\* "?" and includes an emoji.
C21_EngagingVariant ==
  options.shown =>
    LET engaging == options.suggestions[3].text
        withEmoji == options.style.emojiUsage > 5
        prompt == IF withEmoji /\ Len(engagingSuffix) >= 2
                       /\ engagingSuffix[Len(engagingSuffix)] = Emoji
                    THEN SubSeq(engagingSuffix, 1, Len(engagingSuffix) - 2)
                    ELSE engagingSuffix
    IN /\ isPrefix(options.base, engaging)
       /\ prompt # <<>> /\ prompt[Len(prompt)] = "?"
       /\ (Emoji \in SeqRange(engagingSuffix)) <=> withEmoji
       /\ (options.base = T_response /\ options.style.emojiUsage = 8) =>
             /\ engaging[Len(engaging)] = "?"
             /\ Emoji \in SeqRange(engaging)

(***************************************************************************)
(* Properties of the platform detector.                                    *)
(***************************************************************************)

\* The detector on every page.
NextPlatform ==
  \/ \E s \in Sites : OpenSite(s)
  \/ DetectPlatform
  \/ RedetectPlatform

SpecPlatform == Init /\ [][NextPlatform]_vars

NoHostMatch(s) == ~isWhatsAppHost(s) /\ ~isInstagramHost(s) /\ ~isTelegramHost(s)

NoContentMatch(s) ==
  /\ ~hasWhatsAppIndicators(s.markers)
  /\ ~hasInstagramIndicators(s.markers)
  /\ ~hasTelegramIndicators(s.markers)

\* What a detection on page s may leave in the detector d.
ResolvedInOrder(s, d) ==
  /\ isWhatsAppHost(s) => d.currentPlatform = "whatsapp"
  /\ ~isWhatsAppHost(s) /\ isInstagramHost(s) => d.currentPlatform = "instagram"
  /\ ~isWhatsAppHost(s) /\ ~isInstagramHost(s) /\ isTelegramHost(s) =>
       d.currentPlatform = "telegram"
  /\ NoHostMatch(s) /\ hasWhatsAppIndicators(s.markers) => d.currentPlatform = "whatsapp"
  /\ d.currentPlatform = "unknown" <=> NoHostMatch(s) /\ NoContentMatch(s)

AdapterMatchesPlatform(d) ==
  /\ d.platformAdapter # NoAdapter <=> d.currentPlatform \in supportedPlatforms
  /\ d.platformAdapter # NoAdapter => d.platformAdapter.platform = d.currentPlatform

\* C22: detectPlatform takes the first host discriminator that matches, in the
\* order whatsapp, instagram, telegram, looks at the content signatures only when
\* none matched, and ends unknown only when both fail; once it has completed the
\* adapter is non-null exactly when the platform is one of the three supported
\* ones, and the adapter's platform tag is the resolved platform.
C22_PlatformResolution ==
  /\ [](detector.currentPlatform # NoPlatform => AdapterMatchesPlatform(detector))
  /\ [][detector' # detector => ResolvedInOrder(site, detector')]_vars

\* A page that no host discriminator matches was resolved by its content.
C22_Witness ==
  /\ NoHostMatch(site)
  /\ detector.currentPlatform = "instagram"
  /\ detector.platformAdapter = InstagramAdapter
  /\ detector = detectPlatform(site)

\* The pages on which the readiness wait is exercised.
WaitSites ==
  {s \in Sites : /\ s.hostname \in {H_web_whatsapp_com, BlankSite.hostname}
                 /\ s.pathname = BlankSite.pathname
                 /\ s.markers = {} \/ "[contenteditable=true]" \in s.markers}

\* The readiness wait while the page loads and the detector runs.
NextWait ==
  \/ \E s \in WaitSites : OpenSite(s)
  \/ DetectPlatform
  \/ \E timeout \in Timeouts : WaitForPlatformReady(timeout)
  \/ \E d \in PollDelays : CheckReady(d)

SpecWait == Init /\ [][NextWait]_vars

\* The timer of checkReady fires whenever it is set.
SpecWaitLive == SpecWait /\ WF_vars(\E d \in PollDelays : CheckReady(d))

\* The platform is resolved and the document has an input element and a message
\* element of that platform.
ReadyPage ==
  /\ detector.currentPlatform \in supportedPlatforms
  /\ some(getPlatformConfig(detector.currentPlatform).inputSelectors, site.markers)
  /\ some(getPlatformConfig(detector.currentPlatform).messageSelectors, site.markers)

Settled == wait.pc \in {"resolved", "rejected"}

\* C23: waitForPlatformReady(timeout) settles exactly once; it resolves only when
\* isPlatformReady() was seen true (platform resolved, an input element and a
\* message element present), it rejects only when the page was not ready and more
\* than the timeout (10 s by default) has elapsed, and it never polls forever: no
\* timer is left once it settled or once the timeout has elapsed, also when the
\* platform is unknown.
C23_BoundedReadinessWait ==
  /\ [](wait.settles <= 1 /\ (Settled <=> wait.settles = 1))
  /\ [](Settled => ~wait.timer)
  /\ [](wait.timer => wait.elapsed <= wait.timeout)
  /\ [][wait'.pc = "resolved" /\ wait' # wait => ReadyPage]_vars
  /\ [][wait'.pc = "rejected" /\ wait' # wait =>
          ~ReadyPage /\ wait'.elapsed > wait'.timeout]_vars
  /\ (wait.pc = "pending") ~> Settled

\* The default wait timed out on a page whose platform is unknown.
C23_Witness ==
  /\ wait.pc = "rejected"
  /\ wait.timeout = DefaultTimeoutMs
  /\ detector.currentPlatform = "unknown"

\* The pages the content script is constructed on.
SetupSites ==
  {s \in Sites : /\ s.hostname \in {H_web_whatsapp_com, H_www_instagram_com, BlankSite.hostname}
                 /\ s.pathname = BlankSite.pathname
                 /\ s.markers \in {{}, {"[contenteditable=true]", ".message"}}}

\* The content script from its construction on a page.
NextSetup ==
  \/ \E s \in SetupSites : OpenSite(s)
  \/ \E c \in Contacts : Navigate(c)
  \/ Setup
  \/ RedetectPlatform
  \/ Tick(TypingDelayMs)
  \/ CheckForTypingIndicators
  \/ TypingTimerFires

SpecSetup == Init /\ [][NextSetup]_vars

\* C24: the feed observer runs only after a supported platform was resolved and
\* the readiness wait succeeded; while the platform is unknown or the wait has
\* timed out no observer is connected and no domain event is emitted.
C24_ObservationAfterReadiness ==
  /\ isMonitoring => detector.currentPlatform \in supportedPlatforms /\ wait.pc = "resolved"
  /\ detector.currentPlatform = "unknown" \/ wait.pc = "rejected" =>
       /\ observers = 0
       /\ typingHist.emits = 0

(***************************************************************************)
(* Properties of the detector's events.                                    *)
(***************************************************************************)

\* The handlers started by the step just taken, when it was a detection step.
StartedNow == SubSeq(pending', Len(pending) + 1, Len(pending'))

IsContactChanged(h) == h.kind = "contactChanged"

\* C25: when a message has been processed (not suppressed), a contactChanged
\* event is emitted if and only if getCurrentContactId() is non-null and differs
\* from the last observed id; the event carries the new id, which becomes the last
\* observed id, so that two consecutive contactChanged events never carry the
\* same contactId.
C25_ContactChangedDetection ==
  [][emittedMessages' # emittedMessages =>
       LET changed == SelectSeq(StartedNow, IsContactChanged)
           differs == pageContact # NoContact /\ pageContact # lastContactId
       IN /\ Len(changed) <= 1
          /\ Len(changed) = 1 <=> differs
          /\ differs => /\ changed[1].data.contactId = pageContact
                        /\ changed[1].data.contactId # lastContactId
                        /\ lastContactId' = pageContact
          /\ ~differs => lastContactId' = lastContactId]_vars

\* Two messages were processed and only the first one changed the contact.
C25_Witness ==
  /\ Len(emittedMessages) = 2
  /\ Len(pending) = 3
  /\ Len(SelectSeq(pending, IsContactChanged)) = 1
  /\ lastContactId = pageContact

\* a is b with some elements left out.
RECURSIVE IsSubsequence(_, _)
IsSubsequence(a, b) ==
  IF a = <<>> THEN TRUE
  ELSE IF b = <<>> THEN FALSE
  ELSE IF Head(a) = Head(b) THEN IsSubsequence(Tail(a), Tail(b))
  ELSE IsSubsequence(a, Tail(b))

\* The context entry that handleMessageReceived builds for an emitted message.
EntryOf(messageData) ==
  [type |-> "received", message |-> messageData.message,
   timestamp |-> messageData.timestamp, contactId |-> messageData.contactId]

\* C26: the messages are appended to the conversation context in the order in
\* which their nodes were delivered, whatever the order in which the suspended
\* handlers complete.
C26_DeliveryOrder ==
  /\ IsSubsequence(pushed, [i \in DOMAIN emittedMessages |-> EntryOf(emittedMessages[i])])
  /\ IsSubsequence(conversationContext, pushed)

(***************************************************************************)
(* Properties of the settings pushes.                                      *)
(***************************************************************************)

\* The feed while the popup pushes settings.
NextSettings ==
  \/ Tick(TypingDelayMs)
  \/ StartMonitoring
  \/ \E enabled \in BOOLEAN : UpdateSettings(enabled)
  \/ DetectMessage("hi", NoTime, MaxSuggestMessages, MaxSuggestPending)
  \/ DetectTyping(1, MaxSuggestInflight)
  \/ TypingTimerFires
  \/ ResumeHandler
  \/ \E i \in DOMAIN inflight, r \in Responses : DeliverResponse(i, TRUE, r)

SpecSettings == Init /\ [][NextSettings]_vars

\* The last UPDATE_SETTINGS push carried enabled = false.
PushedDisabled == configured.enabled.set /\ ~configured.enabled.value

\* C27: once an UPDATE_SETTINGS push with enabled = false has been received, and
\* until a push with enabled = true, no typingDetected event makes the content
\* script issue a suggestion request, so that no overlay is shown for it.
C27_DisabledByPush == [][PushedDisabled => Len(inflight') <= Len(inflight)]_vars

(***************************************************************************)
(* Properties of the event emitter.                                        *)
(***************************************************************************)

\* Listeners are registered, removed and called.
NextEmitter ==
  \/ \E callback \in Callbacks : On(callback)
  \/ \E callback \in Callbacks : Off(callback)
  \/ Emit

SpecEmitter == Init /\ [][NextEmitter]_vars

\* C28: when an event is emitted and a registered listener throws, every
\* listener registered at emit time is still called, in registration order, and
\* the exception does not leave emit.
C28_ListenerFaultIsolation ==
  /\ lastEmit.called = [i \in DOMAIN lastEmit.registered |-> lastEmit.registered[i].name]
  /\ ~lastEmit.propagated
  /\ lastEmit.caught = Cardinality({i \in DOMAIN lastEmit.registered :
                                      lastEmit.registered[i].kind = "throws"})

\* A listener threw and the listeners registered after it were still called.
C28_Witness ==
  /\ Len(lastEmit.registered) = MaxListeners
  /\ lastEmit.registered[1].kind = "throws"
  /\ lastEmit.registered[2].kind = "unsubscribes"
  /\ Len(lastEmit.called) = MaxListeners

(***************************************************************************)
(* Properties of the cleanup.                                              *)
(***************************************************************************)

\* The request whose conversation the worker stores.
CleanupRequest == CHOOSE data \in AIRequests : TRUE

\* Conversations are stored over the weeks and the cleanup runs.
NextCleanup ==
  \/ \E d \in IdleDays : Sleep(d)
  \/ HandleAIRequest(CleanupRequest, TRUE)
  \/ SendAIResponse(T_response)
  \/ StoreConversation
  \/ CleanupOldData
  \/ CleanupRead
  \/ CleanupCallback

SpecCleanup == Init /\ [][NextCleanup]_vars

\* C29: when cleanupOldData completes, conversationData holds exactly the
\* entries stored before whose timestamp lies within the last 30 days, in their
\* original order: no older entry remains and no newer entry is removed.
C29_RetentionPurge ==
  [][cleanup.pc = "callback" /\ cleanup'.pc = "idle" =>
       LET previous == storedConversations
           Newer(conv) == After(conv.timestamp, cleanup.thirtyDaysAgo)
           Older(conv) == After(cleanup.thirtyDaysAgo, conv.timestamp)
       IN /\ IsSubsequence(storedConversations', previous)
          /\ IsSubsequence(SelectSeq(previous, Newer), storedConversations')
          /\ \A i \in DOMAIN storedConversations' : ~Older(storedConversations'[i])]_vars

(***************************************************************************)
(* Properties of the message direction.                                    *)
(***************************************************************************)

\* The feed with incoming and outgoing message nodes.
NextDirection ==
  \/ Tick(TypingDelayMs)
  \/ StartMonitoring
  \/ \E text \in Texts, node \in MessageNodes :
       DetectMessageNode(text, NoTime, node, MaxMessages, MaxSuggestPending)
  \/ DetectTyping(1, MaxSuggestInflight)
  \/ TypingTimerFires
  \/ ResumeHandler

SpecDirection == Init /\ [][NextDirection]_vars

\* The detections a context entry or a request message may stem from.
DetectionsOf(message, contactId) ==
  {j \in DOMAIN emittedMessages : /\ emittedMessages[j].message = message
                                   /\ emittedMessages[j].contactId = contactId}

\* C30: the message of a suggestion request is a context entry that was detected
\* as incoming, and a message detected as outgoing is recorded in the context
\* with the direction out, so that it is never the message to reply to.
C30_LastInboundMessage ==
  /\ \A k \in DOMAIN inflight :
       \E j \in DetectionsOf(inflight[k].message, inflight[k].contactId) :
         emittedMessages[j].type = "incoming"
  /\ \A i \in DOMAIN conversationContext :
       conversationContext[i].type = "received" =>
         \E j \in DetectionsOf(conversationContext[i].message, conversationContext[i].contactId) :
           emittedMessages[j].type = "incoming"

(***************************************************************************)
(* Post-processing of provider responses.                                  *)
(***************************************************************************)
\* The results the provider tiers of the call handed back as usable.
ProviderResults ==
  {call.tiers[i].result.text : i \in {j \in DOMAIN call.tiers :
                                       /\ call.tiers[j].called
                                       /\ Truthy(call.tiers[j].result)}}

\* C31: every response obtained from an external provider has, after
\* post-processing, no leading or trailing whitespace and at most 100 characters.
C31_ResponseBound ==
  \A t \in ProviderResults :
    /\ trim(t) = t
    /\ Len(t) <= MaxResponseLength

(***************************************************************************)
(* The time parsers on their own.                                          *)
(***************************************************************************)
NextTime ==
  \E parser \in TimeParsers, timeText \in TimeTexts, clock \in Clocks :
    ParseTime(parser, timeText, clock)

SpecTime == Init /\ [][NextTime]_vars

\* C32: for a time text H:MM or HH:MM with optional AM/PM, whatever the hour
\* digits and the clock, the parsed timestamp is not later than the clock; the
\* relative texts 'N min' and 'Nh' give the clock minus N minutes or N hours.
C32_NoFutureTimestamp ==
  /\ parsedTime.timeText \in ClockTexts =>
       /\ ~parsedTime.result.isNull
       /\ parsedTime.result.time <= parsedTime.clock
  /\ parsedTime.parser = "instagram" /\ parsedTime.timeText \in MinuteAgoTexts =>
       parsedTime.result =
         DateAt(parsedTime.clock
                  - numberOf(SubSeq(parsedTime.timeText, 1, RunEnd(parsedTime.timeText, 1, Digits)))
                      * MsPerMinute)
  /\ parsedTime.parser = "instagram" /\ parsedTime.timeText \in HourAgoTexts =>
       parsedTime.result =
         DateAt(parsedTime.clock
                  - numberOf(SubSeq(parsedTime.timeText, 1, RunEnd(parsedTime.timeText, 1, Digits)))
                      * MsPerHour)

(***************************************************************************)
(* The adapter after a forced re-resolution.                               *)
(***************************************************************************)
\* C33: once the content script is set up, and so after every redetectPlatform,
\* the adapter the feed observer dispatches to (detectNewMessage, detectTyping,
\* getCurrentContactId) is the adapter the resolver currently owns, which is the
\* one text insertion and the overlay read through the resolver.
C33_AdapterConsistency ==
  detector.currentPlatform # NoPlatform => platformAdapter = detector.platformAdapter

(***************************************************************************)
(* Several suggestion requests in flight.                                  *)
(***************************************************************************)
\* The suggestion trigger with up to MaxLatestInflight requests outstanding,
\* answered in any order.
NextLatest ==
  \/ Tick(TypingDelayMs)
  \/ \E c \in Contacts : Navigate(c)
  \/ StartMonitoring
  \/ DetectMessage("hi", NoTime, MaxSuggestMessages, MaxSuggestPending)
  \/ DetectTyping(1, MaxLatestInflight)
  \/ TypingTimerFires
  \/ ResumeHandler
  \/ \E i \in DOMAIN inflight, success \in BOOLEAN, r \in Responses :
       DeliverResponse(i, success, r)

SpecLatest == Init /\ [][NextLatest]_vars

\* C34: requests may be outstanding together, and once all of them have been
\* answered the suggestions on display are not those of a request that was
\* issued before one whose suggestions were already shown.
C34_LatestRequestWins ==
  inflight = <<>> /\ lastDelivery.shown => ~lastDelivery.overtaken

(***************************************************************************)
(* Conversation records under concurrent requests.                         *)
(***************************************************************************)
\* Requests are answered while earlier storage callbacks are outstanding, and
\* the cleanup runs; no day passes, so that no record is old enough to purge.
NextConcurrent ==
  \/ \E c \in Contacts, r \in Responses : AnswerAIRequest(c, "hi", r)
  \/ ConversationRead
  \/ ConversationCallback
  \/ CleanupOldData
  \/ CleanupRead
  \/ CleanupCallback

SpecConcurrent == Init /\ [][NextConcurrent]_vars

Occurrences(s, x) == Cardinality({i \in DOMAIN s : s[i] = x})

\* C35: once every storage callback has run, conversationData holds one record
\* for each request that was answered successfully, up to the cap of 1000, and
\* it never holds more than 1000.
C35_NoLostRecords ==
  /\ Len(storedConversations) <= ConversationCapacity
  /\ stores.pending = <<>> /\ cleanup.pc = "idle" /\ Len(stores.answered) <= ConversationCapacity =>
       \A i \in DOMAIN stores.answered :
         Occurrences(storedConversations, stores.answered[i])
           = Occurrences(stores.answered, stores.answered[i])

(***************************************************************************)
(* Visibility of the overlay.                                              *)
(***************************************************************************)
\* The overlay shown, hidden by the switch and shown again, with the fade-out
\* callbacks running when they are due.
NextOverlay ==
  \/ Elapse(TypingDelayMs)
  \/ fadeTimers # {} /\ Elapse(FadeOutMs)
  \/ StartMonitoring
  \/ DetectMessage("hi", NoTime, MaxSuggestMessages, MaxSuggestPending)
  \/ DetectTyping(1, MaxSuggestInflight)
  \/ TypingTimerFires
  \/ ResumeHandler
  \/ \E i \in DOMAIN inflight, success \in BOOLEAN, r \in Responses :
       DeliverResponse(i, success, r)
  \/ ToggleSuggestions
  \/ FadeOutFires

SpecOverlay == Init /\ [][NextOverlay]_vars

\* C36: from the return of showSuggestions with a non-empty list until hide() is
\* next called or the auto-hide delay elapses, which is while the auto-hide timer
\* it started is pending, the overlay is visible and holds the suggestions and
\* the contact it was given, also when a fade-out timer of an earlier hide() was
\* still pending at the call.
C36_OverlayVisibility ==
  autoHideTimer # NoTimer =>
    /\ overlay.isVisible
    /\ overlay.base \in Responses
    /\ now < autoHideTimer

(***************************************************************************)
(* Keys saved in the popup.                                                *)
(***************************************************************************)
SaveKeyOutcomes ==
  {o \in FetchOutcomes(HFShapes) : o.kind = "networkError" \/ o.text = <<" ", " ", " ">>}

\* The worker loads its keys, the popup saves keys, requests are served, and the
\* worker is restarted.
NextSaveKey ==
  \/ InitializeAPIKeysFromStorage
  \/ \E provider \in Providers : SaveApiKey(provider)
  \/ OnMessage
  \/ burstFetches < MaxSavedFetches
       /\ \E message \in {StringMessage(<<"o", "k">>)} : GenerateResponse(message)
  \/ \E outcome \in SaveKeyOutcomes : HuggingFaceSettles(outcome)
  \/ \E outcome \in SaveKeyOutcomes : GeminiSettles(outcome)
  \/ Restart

SpecSaveKey == Init /\ [][NextSaveKey]_vars

\* C37: once the popup has saved a key for a provider and its message has been
\* handled, the key set of the running worker holds a key for that provider, so
\* that the next generateResponse attempts the provider.
C37_SavedKeyTakesEffect ==
  \A provider \in popup.saved :
    popup.message = "none" /\ apiKeys.loaded => apiKeys[provider]

(***************************************************************************)
(* The service lifecycle of the desktop application.                       *)
(***************************************************************************)
NextService ==
  \/ \E hasApiKeys \in BOOLEAN : InitService(hasApiKeys)
  \/ SwitchToDashboard
  \/ ClickStartService
  \/ ClickStopService

SpecService == Init /\ [][NextService]_vars

\* C38: whatever the sequence of startService and stopService calls, when
\* stopService has completed with status 'stopped' no monitoring interval is
\* active, and never more than one monitoring interval is active.
C38_NoTimerLeftBehind ==
  /\ service.serviceStatus = "stopped" => service.intervals = {}
  /\ Cardinality(service.intervals) <= 1

(***************************************************************************)
(* once and waitFor of the EventEmitter.                                   *)
(***************************************************************************)
PlainCallback == CHOOSE callback \in Callbacks : callback.kind = "returns"

NextOnce ==
  \/ On(PlainCallback)
  \/ Off(PlainCallback)
  \/ \E callback \in OnceCallbacks : Once(callback)
  \/ WaitFor
  \/ WaitForTimeout
  \/ Emit

SpecOnce == Init /\ [][NextOnce]_vars

\* C39: a callback registered with once is invoked at most once, whatever the
\* emits, an emit from inside the callback and a callback that throws included,
\* and once it has been invoked its wrapper is no longer registered.
C39_OnceAtMostOnce ==
  \A callback \in OnceCallbacks :
    /\ invocations[callback.name] <= 1
    /\ invocations[callback.name] >= 1 => indexOf(listeners, onceCallback(callback)) = 0

\* C40: once the promise of waitFor has settled, resolved by an emit or rejected
\* by the timeout, the listener waitFor registered is no longer registered.
C40_WaitForLeavesNoListener ==
  promise.pc \in {"resolved", "rejected"} => indexOf(listeners, onceCallback(Resolver)) = 0

====
